---- MODULE Spec2Model ----
(***************************************************************************)
(* Canvas -> Notion synchronisation (Falaxsa13/Turing).                    *)
(*                                                                         *)
(* Spec      : the sync entry points run as whole handlers against a       *)
(*             Notion workspace, twice in a row over unchanged Canvas data *)
(*             (SyncCoordinator.sync_current_semester_courses,             *)
(*             CourseSyncService.sync_courses,                             *)
(*             AssignmentSyncService.sync_assignments,                     *)
(*             SyncCoordinator.sync_assignments_for_courses,               *)
(*             POST /sync/start, POST /sync/assignments).                  *)
(* SpecConc  : the two semaphore tiers of AssignmentSyncService, one step  *)
(*             per acquire / release.                                      *)
(* SpecUsers : two overlapping sync_assignments invocations on one         *)
(*             AssignmentSyncService instance, one step per await.         *)
(* SpecPages : one paginated read of a Canvas or Notion collection, one    *)
(*             step per request.                                           *)
(* SpecMap   : the mapping functions (due dates, points, terms, assignment *)
(*             types, course names, Notion properties), each applied once  *)
(*             to an argument of a bounded set.                            *)
(***************************************************************************)
EXTENDS Integers, Sequences, FiniteSets, Bags, TLC

VARIABLES
    numCourses,        \* Canvas: number of current-term courses (ids 1..numCourses)
    numAssignments,    \* Canvas: number of assignments of every course
    idPattern,         \* Canvas: how assignment ids repeat ("distinct", "dup_in_course", "dup_across")
    credentials,       \* store: the user's settings ("ok", "no_canvas", "no_notion")
    notionCourses,     \* Notion Courses database: sequence of pages
    notionAssignments, \* Notion Assignments/Exams database: sequence of pages
    sync_logs,         \* store: the sync_logs collection, a sequence of entries
    result,            \* what the last sync call gave its caller
    env,               \* the calls of the environment that failed during the last sync call
    prev,              \* the sync call before the last one: its summary, its number of failed calls
    runNo,             \* "none", "first", "second": the calls made so far
    conc,              \* SpecConc: the semaphore tiers
    inv_,              \* SpecUsers: the two invocations
    current_user_email, \* SpecUsers: AssignmentSyncService._current_user_email
    fetch,             \* SpecPages: one paginated read of a Canvas or Notion collection
    call,              \* SpecMap: one call of a mapping function, its arguments and value
    gather             \* SpecGather: one sync_assignments run, its tasks and their results

vars == <<numCourses, numAssignments, idPattern, credentials, notionCourses,
          notionAssignments, sync_logs, result, env, prev, runNo, conc, inv_,
          current_user_email, fetch, call, gather>>

(***************************************************************************)
(* Bounds of the model and constants of the program.                       *)
(***************************************************************************)
MaxCourses == 2
MaxAssignments == 2
MaxFaults == 1
\* SpecConc: synced courses, and new assignments of a course
ConcCourses == 4
ConcAssignments == 9

\* notion_helper.py:506  weight_value > 1000
WeightThreshold == 1000
\* assignment_sync.py:87  asyncio.Semaphore(3)
CourseSemaphore == 3
\* assignment_sync.py:233  asyncio.Semaphore(8)
AssignmentSemaphore == 8

(***************************************************************************)
(* Python values that the code compares: an int and the str of its digits  *)
(* are different values ("12" in {12} is False).                           *)
(***************************************************************************)
IntV(n) == [t |-> "int", v |-> n]
StrV(n) == [t |-> "str", v |-> n]
py_str(x) == StrV(x.v)
py_int(x) == IntV(x.v)

RECURSIVE Pick(_, _, _)
\* the subsequence of s at the indices in I, in index order, from index i on
Pick(s, I, i) ==
    IF i > Len(s) THEN <<>>
    ELSE (IF i \in I THEN <<s[i]>> ELSE <<>>) \o Pick(s, I, i + 1)

NoneV == [t |-> "none", v |-> 0]

(***************************************************************************)
(* What a sync call hands to its caller: a summary, or a raised error.     *)
(***************************************************************************)
Summary(kind, success, courses_processed, found, created, failed, skipped, created_items, failed_items) ==
    [kind |-> kind, raised |-> FALSE, success |-> success,
     courses_processed |-> courses_processed, found |-> found, created |-> created,
     failed |-> failed, skipped |-> skipped,
     created_items |-> created_items, failed_items |-> failed_items]

\* the summary of the catch-all handlers and of the "nothing to do" returns: every count 0
ZeroSummary(kind, success) == Summary(kind, success, 0, 0, 0, 0, 0, <<>>, <<>>)

Raised(kind) == [ZeroSummary(kind, FALSE) EXCEPT !.raised = TRUE]

NoResult == ZeroSummary("none", FALSE)

(***************************************************************************)
(* The environment of one sync call: the set of calls to Canvas, Notion    *)
(* and the store that fail during it.                                      *)
(*   synced_query  the Courses database query of get_synced_courses        *)
(*   index_query   the Assignments/Exams query of get_existing_assignments *)
(*   course_fetch  the Canvas request for the enrolled courses             *)
(*   fetch c       the Canvas request for the assignments of course c      *)
(*   course c how  creating course c: "none" the create gives no id,       *)
(*                 "raise" a step for the course raises                    *)
(*   item c j how  the same for assignment j of course c                   *)
(*   store         a write to the store other than the sync-log entry      *)
(*   log           the sync-log entry written to the store                 *)
(***************************************************************************)
Site(site, c, j, how) == [site |-> site, c |-> c, j |-> j, how |-> how]

FailureHow == {"none", "raise"}

StoreSites == {Site("store", 0, 0, "")}

LogSites == {Site("log", 0, 0, "")}

CourseSyncSites ==
    {Site("synced_query", 0, 0, ""), Site("course_fetch", 0, 0, "")}
    \cup {Site("course", c, 0, how) : c \in 1..numCourses, how \in FailureHow}

AssignmentSyncSites ==
    {Site("synced_query", 0, 0, ""), Site("index_query", 0, 0, "")}
    \cup {Site("fetch", c, 0, "") : c \in 1..numCourses}
    \cup {Site("item", c, j, how) : c \in 1..numCourses, j \in 1..numAssignments,
                                    how \in FailureHow}

RECURSIVE FaultSets(_, _)
\* the sets of at most k failing calls among sites
FaultSets(sites, k) ==
    IF k = 0 THEN {{}}
    ELSE LET S == FaultSets(sites, k - 1) IN S \cup {s \cup {x} : s \in S, x \in sites}

Fails(F, site) == Site(site, 0, 0, "") \in F
FetchFails(F, c) == Site("fetch", c, 0, "") \in F
Outcome(F, site, c, j) ==
    IF Site(site, c, j, "none") \in F THEN "none"
    ELSE IF Site(site, c, j, "raise") \in F THEN "raise" ELSE "ok"

(***************************************************************************)
(* Canvas.                                                                 *)
(***************************************************************************)
\* the raw current-term courses; the client turns a failed request into []
get_current_semester_courses(F) ==
    IF Fails(F, "course_fetch") THEN <<>> ELSE [i \in 1..numCourses |-> [id |-> IntV(i)]]

(***************************************************************************)
(* Notion Courses database and the course duplicate index.                 *)
(***************************************************************************)
\* "contact": f"Canvas ID: {canvas_course.get('id', '')}": the id's digits in a text
map_canvas_course_to_notion(canvas_course) == [contact |-> canvas_course.id.v]

\* the page written from the mapped course: its phone_number property holds the text
add_course_entry(notion_course_data) == [phone_number |-> notion_course_data.contact]

\* phone_value.split("Canvas ID:")[1].strip(): the digits as a str
ContactCanvasId(page) == StrV(page.phone_number)

\* NotionCourseInfo.canvas_course_id: Optional[str] -- the field takes a str (or None);
\* any other value is a validation error, which is a ValueError
NotionCourseInfoAccepts(canvas_course_id) == canvas_course_id.t \in {"str", "none"}

\* the pages whose NotionCourseInfo(canvas_course_id=int(...)) could be built; a page
\* whose construction raises ValueError is left out; a failed query gives []
get_synced_courses(pages, F) ==
    IF Fails(F, "synced_query") THEN <<>>
    ELSE LET info(i) == [notion_page_id |-> i,
                         canvas_course_id |-> py_int(ContactCanvasId(pages[i]))]
             built == {i \in 1..Len(pages) : NotionCourseInfoAccepts(info(i).canvas_course_id)}
         IN  Pick([i \in 1..Len(pages) |-> info(i)], built, 1)

(***************************************************************************)
(* The per-course loop of the two course syncs: each course is skipped,    *)
(* created or failed, and the loop goes on to the next course.             *)
(***************************************************************************)
\* a loop that stops at its first failing item
HandledUpToFirstFailure(todo, failing) == {i \in todo : \A k \in failing : i <= k}

\* the items of a batch that are handled when those in failing fail: a failure is caught
\* per item (the except clause in the loop body, return_exceptions=True and the catch-all
\* of _process_single_assignment), so all of todo are
Handled(todo, failing) == todo

CourseItem(id) == [canvas_id |-> id]

CourseLoop(courses, existing_canvas_ids, F) ==
    LET n == Len(courses)
        item(i) == CourseItem(courses[i].id.v)
        skippedIdx == {i \in 1..n : py_str(courses[i].id) \in existing_canvas_ids}
        todo == (1..n) \ skippedIdx
        failing == {i \in todo : Outcome(F, "course", i, 0) # "ok"}
        createdIdx == Handled(todo, failing) \ failing
        failedIdx == Handled(todo, failing) \cap failing
    IN  [created_items |-> Pick([i \in 1..n |-> item(i)], createdIdx, 1),
         failed_items |-> Pick([i \in 1..n |-> item(i)], failedIdx, 1),
         skipped |-> Cardinality(skippedIdx),
         pages |-> Pick([i \in 1..n |-> add_course_entry(map_canvas_course_to_notion(courses[i]))],
                        createdIdx, 1)]

\* SyncCoordinator.sync_current_semester_courses: [summary, pages added to Notion]
CoordinatorCourseSync(pages, F) ==
    LET existing_courses == get_synced_courses(pages, F)
        existing_canvas_ids == {existing_courses[i].canvas_course_id :
                                    i \in 1..Len(existing_courses)}
        courses == get_current_semester_courses(F)
        loop == CourseLoop(courses, existing_canvas_ids, F)
        courses_created == Len(loop.created_items)
    IN  IF courses = <<>>
        THEN [summary |-> ZeroSummary("coordinator_courses", FALSE), pages |-> <<>>]
        ELSE [summary |-> Summary("coordinator_courses",
                                  courses_created > 0 \/ Len(courses) = loop.skipped,
                                  0, Len(courses), courses_created, Len(loop.failed_items),
                                  loop.skipped, loop.created_items, loop.failed_items),
              pages |-> loop.pages]

\* CourseSyncService._sync_current_semester_courses
ServiceCourseSync(pages, F) ==
    LET courses == get_current_semester_courses(F)
        existing_courses == get_synced_courses(pages, F)
        existing_canvas_ids == {py_str(existing_courses[i].canvas_course_id) :
                                    i \in 1..Len(existing_courses)}
        loop == CourseLoop(courses, existing_canvas_ids, F)
        courses_failed == Len(loop.failed_items)
    IN  IF courses = <<>>
        THEN [summary |-> ZeroSummary("service_courses", TRUE), pages |-> <<>>]
        ELSE [summary |-> Summary("service_courses", courses_failed = 0,
                                  0, Len(courses), Len(loop.created_items), courses_failed,
                                  loop.skipped, loop.created_items, loop.failed_items),
              pages |-> loop.pages]

\* a store whose failing write is raised to the caller
StoreWriteRaised(F) == Fails(F, "store")

\* FirebaseUserService.create_or_update_user_settings, FirebaseLoggingService.add_sync_log:
\* a failing Firestore write is logged and answered with False, it is not raised
StoreWriteRaises(F) == FALSE

\* a sync log whose failing write is raised to the caller
LogWriteRaised(F) == Fails(F, "log")

\* add_sync_log: the write to the collection is inside its try block, a failing write is
\* logged and answered with False
LogWriteRaises(F) == FALSE

\* add_sync_log: the entries the collection gains
add_sync_log(F, sync_type, status) ==
    IF Fails(F, "log") THEN <<>> ELSE <<[sync_type |-> sync_type, status |-> status]>>

\* CourseSyncService.sync_courses
ServiceSyncCourses(pages, F) ==
    IF credentials # "ok"
    THEN [summary |-> Raised("service_courses"), pages |-> <<>>]
    ELSE LET r == ServiceCourseSync(pages, F)
         IN  IF r.summary.success /\ (StoreWriteRaises(F) \/ LogWriteRaises(F))
             THEN [summary |-> Raised("service_courses"), pages |-> r.pages]
             ELSE r

\* CourseSyncService.sync_courses: the sync-log entries it appends on the way to summary:
\* one after a successful sync, one in the handler of a raised error, none otherwise
ServiceSyncCoursesLogs(summary, F) ==
    IF summary.raised THEN add_sync_log(F, "courses", "failed")
    ELSE IF summary.success THEN add_sync_log(F, "courses", "success")
    ELSE <<>>

\* POST /sync/start: [summary, pages added to Notion, entries added to sync_logs]
start_canvas_notion_sync_result(pages, F) ==
    IF credentials # "ok"
    THEN [summary |-> Raised("api_courses"), pages |-> <<>>, logs |-> <<>>]
    ELSE LET r == CoordinatorCourseSync(pages, F)
         IN  IF r.summary.success /\ (StoreWriteRaises(F) \/ LogWriteRaises(F))
             THEN [summary |-> Raised("api_courses"), pages |-> r.pages,
                   logs |-> add_sync_log(F, "courses", "failed")]
             ELSE [summary |-> [r.summary EXCEPT !.kind = "api_courses"],
                   pages |-> r.pages,
                   logs |-> IF r.summary.success
                            THEN add_sync_log(F, "courses", "success")
                            ELSE <<>>]

(***************************************************************************)
(* Canvas assignments.  Every course has numAssignments assignments; their *)
(* ids lie around WeightThreshold and repeat as idPattern says.            *)
(***************************************************************************)
IdPatterns == {"distinct", "dup_in_course", "dup_across"}

AssignmentId(c, j) ==
    CASE idPattern = "distinct" -> WeightThreshold - 1 + (c - 1) * numAssignments + (j - 1)
      [] idPattern = "dup_in_course" -> WeightThreshold + c
      [] idPattern = "dup_across" -> WeightThreshold + j

\* the assignments of course c; both clients turn a failed request into []
get_course_assignments(c, F) ==
    IF FetchFails(F, c) THEN <<>>
    ELSE [j \in 1..numAssignments |-> [id |-> IntV(AssignmentId(c, j)), name |-> <<c, j>>]]

(***************************************************************************)
(* Notion Assignments/Exams database and the assignment duplicate index.   *)
(***************************************************************************)
\* "weighting": float(canvas_assignment_id)  (AssignmentMapper and AssignmentFormatter)
AssignmentPage(assignment) == [weighting |-> assignment.id.v]

\* weight_value > 1000 gives str(int(weight_value)), anything else leaves None
WeightingCanvasId(page) ==
    IF page.weighting > WeightThreshold THEN StrV(page.weighting) ELSE NoneV

\* NotionAssignmentInfo: the fields declared without a default are required
NotionAssignmentInfoRequired ==
    {"notion_id", "notion_page_id", "canvas_id", "canvas_assignment_id", "name", "title"}

NotionAssignmentInfoAccepts(given) == NotionAssignmentInfoRequired \subseteq given

\* the pages with a decoded id whose NotionAssignmentInfo(notion_page_id=,
\* canvas_assignment_id=, title=) could be built; a page whose construction raises is
\* left out; a failed query gives []
get_existing_assignments(pages, F) ==
    IF Fails(F, "index_query") THEN <<>>
    ELSE LET info(i) == [notion_page_id |-> i,
                         canvas_assignment_id |-> WeightingCanvasId(pages[i])]
             built == {i \in 1..Len(pages) :
                          /\ WeightingCanvasId(pages[i]) # NoneV
                          /\ NotionAssignmentInfoAccepts(
                                 {"notion_page_id", "canvas_assignment_id", "title"})}
         IN  Pick([i \in 1..Len(pages) |-> info(i)], built, 1)

(***************************************************************************)
(* The courses an assignment sync fans out over.  The courses a course     *)
(* sync created are 1..numCourses; the list the code works on is either    *)
(* what get_synced_courses builds from the Courses database or, for the    *)
(* behaviour of the fan-out under already-synced courses, that full list.  *)
(***************************************************************************)
AlreadySyncedCourses ==
    [c \in 1..numCourses |-> [notion_page_id |-> c, canvas_course_id |-> IntV(c)]]

SyncedCourseLists(pages, F) == {get_synced_courses(pages, F), AlreadySyncedCourses}

(***************************************************************************)
(* One course's batch.                                                     *)
(***************************************************************************)
CourseResult(found, created, failed, skipped, created_items, failed_items, pages) ==
    [found |-> found, created |-> created, failed |-> failed, skipped |-> skipped,
     created_items |-> created_items, failed_items |-> failed_items, pages |-> pages]

\* a course whose empty assignment list is reported as one failed item
FailedCourseResult(c) == CourseResult(0, 0, 1, 0, <<>>, <<[canvas_id |-> c, name |-> <<c, 0>>]>>, <<>>)

\* what a course contributes when its assignment list came back empty, which is also
\* what a failed fetch looks like
EmptyCourseResult(c) == CourseResult(0, 0, 0, 0, <<>>, <<>>, <<>>)

AssignmentItem(a) == [canvas_id |-> a.id.v, name |-> a.name]

\* an index that gains the id of every assignment handled before assignment j
IndexUpdatedInRun(existing, assignments, j) ==
    existing \cup {assignments[k].id : k \in 1..(j - 1)}
             \cup {py_str(assignments[k].id) : k \in 1..(j - 1)}

\* the ids the membership test of assignment j sees: the index fetched before the
\* fan-out; nothing is added to it while the run creates pages
IndexDuringRun(existing, assignments, j) == existing

\* the assignments handled in a batch: those at the indices in newIdx, each created or
\* failed on its own
ProcessBatch(c, assignments, newIdx, F) ==
    LET n == Len(assignments)
        failing == {j \in newIdx : Outcome(F, "item", c, j) # "ok"}
        createdIdx == Handled(newIdx, failing) \ failing
        failedIdx == Handled(newIdx, failing) \cap failing
    IN  CourseResult(n, Cardinality(createdIdx), Cardinality(failedIdx),
                     n - Cardinality(newIdx),
                     Pick([j \in 1..n |-> AssignmentItem(assignments[j])], createdIdx, 1),
                     Pick([j \in 1..n |-> AssignmentItem(assignments[j])], failedIdx, 1),
                     Pick([j \in 1..n |-> AssignmentPage(assignments[j])], createdIdx, 1))

\* AssignmentSyncService._sync_course_assignments
_sync_course_assignments(course, existing_assignment_ids, F) ==
    LET c == course.canvas_course_id.v
        assignments == get_course_assignments(c, F)
        newIdx == {j \in 1..Len(assignments) :
                      assignments[j].id \notin
                          IndexDuringRun(existing_assignment_ids, assignments, j)}
    IN  IF assignments = <<>> THEN EmptyCourseResult(c)
        ELSE ProcessBatch(c, assignments, newIdx, F)

\* SyncCoordinator.sync_assignments_for_courses, the body of the loop for one course
CoordinatorCourseAssignments(course, existing_canvas_ids, F) ==
    LET c == course.canvas_course_id.v
        assignments == get_course_assignments(c, F)
        newIdx == {j \in 1..Len(assignments) :
                      py_str(assignments[j].id) \notin
                          IndexDuringRun(existing_canvas_ids, assignments, j)}
    IN  IF assignments = <<>> THEN EmptyCourseResult(c)
        ELSE ProcessBatch(c, assignments, newIdx, F)

RECURSIVE Aggregate(_, _)
\* the totals over the per-course results, courses in list order from course i on
Aggregate(results, i) ==
    IF i > Len(results) THEN CourseResult(0, 0, 0, 0, <<>>, <<>>, <<>>)
    ELSE LET r == results[i]
             t == Aggregate(results, i + 1)
         IN  CourseResult(r.found + t.found, r.created + t.created, r.failed + t.failed,
                          r.skipped + t.skipped, r.created_items \o t.created_items,
                          r.failed_items \o t.failed_items, r.pages \o t.pages)

\* AssignmentSyncService.sync_assignments
ServiceSyncAssignments(synced_courses, pages, F) ==
    LET kind == "service_assignments"
        existing_assignments == get_existing_assignments(pages, F)
        existing_assignment_ids == {py_int(existing_assignments[i].canvas_assignment_id) :
                                        i \in 1..Len(existing_assignments)}
        course_results == [i \in 1..Len(synced_courses) |->
                              _sync_course_assignments(synced_courses[i],
                                                       existing_assignment_ids, F)]
        t == Aggregate(course_results, 1)
    IN  IF credentials # "ok" \/ synced_courses = <<>>
        THEN [summary |-> ZeroSummary(kind, FALSE), pages |-> <<>>]
        ELSE [summary |-> Summary(kind, t.failed = 0, Len(synced_courses), t.found, t.created,
                                  t.failed, t.skipped, t.created_items, t.failed_items),
              pages |-> t.pages]

\* SyncCoordinator.sync_assignments_for_courses
CoordinatorSyncAssignments(synced_courses, pages, F) ==
    LET kind == "coordinator_assignments"
        existing_assignments == get_existing_assignments(pages, F)
        existing_canvas_ids == {existing_assignments[i].canvas_assignment_id :
                                    i \in 1..Len(existing_assignments)}
        course_results == [i \in 1..Len(synced_courses) |->
                              CoordinatorCourseAssignments(synced_courses[i],
                                                           existing_canvas_ids, F)]
        t == Aggregate(course_results, 1)
    IN  IF synced_courses = <<>>
        THEN [summary |-> ZeroSummary(kind, FALSE), pages |-> <<>>]
        ELSE [summary |-> Summary(kind, t.created > 0 \/ t.found = t.skipped,
                                  Len(synced_courses), t.found, t.created, t.failed,
                                  t.skipped, t.created_items, t.failed_items),
              pages |-> t.pages]

\* sync_result["success"]: the course sync returns a dict, the assignment sync returns an
\* AssignmentSyncResponse, a pydantic model, which has no __getitem__ (TypeError)
Subscriptable(kind) == kind = "coordinator_courses"

\* POST /sync/assignments: the coordinator runs, then the handler subscripts its result
sync_canvas_assignments_result(synced_courses, pages, F) ==
    IF credentials # "ok"
    THEN [summary |-> Raised("api_assignments"), pages |-> <<>>, logs |-> <<>>]
    ELSE LET r == CoordinatorSyncAssignments(synced_courses, pages, F)
         IN  IF Subscriptable(r.summary.kind) /\ ~LogWriteRaises(F)
             THEN [summary |-> [r.summary EXCEPT !.kind = "api_assignments"],
                   pages |-> r.pages,
                   logs |-> add_sync_log(F, "assignments",
                                         IF r.summary.success THEN "success" ELSE "failed")]
             ELSE [summary |-> Raised("api_assignments"),
                   pages |-> r.pages,
                   logs |-> add_sync_log(F, "assignments", "failed")]

(***************************************************************************)
(* Spec: the sync entry points as whole handlers.  A history is one call   *)
(* or two calls of the same entry point in a row over unchanged Canvas     *)
(* data; at most MaxFaults calls of the environment fail in a history.     *)
(***************************************************************************)
Credentials == {"ok", "no_canvas", "no_notion"}

Init ==
    /\ numCourses \in 0..MaxCourses
    /\ numAssignments \in 0..MaxAssignments
    /\ idPattern \in IdPatterns
    /\ credentials \in Credentials
    /\ notionCourses = <<>>
    /\ notionAssignments = <<>>
    /\ sync_logs = <<>>
    /\ result = NoResult
    /\ env = {}
    /\ prev = [summary |-> NoResult, faults |-> 0]
    /\ runNo = "none"
    /\ conc = <<>>
    /\ inv_ = <<>>
    /\ current_user_email = "none"
    /\ fetch = <<>>
    /\ call = <<>>
    /\ gather = <<>>

CanRun(kind) == runNo = "none" \/ (runNo = "first" /\ result.kind = kind)

Budget == MaxFaults - Cardinality(env)

Return(summary, F) ==
    /\ result' = summary
    /\ env' = F
    /\ prev' = [summary |-> result, faults |-> Cardinality(env)]
    /\ runNo' = IF runNo = "none" THEN "first" ELSE "second"
    /\ UNCHANGED <<numCourses, numAssignments, idPattern, credentials,
                   conc, inv_, current_user_email, fetch, call, gather>>

sync_current_semester_courses ==
    /\ CanRun("coordinator_courses")
    /\ \E F \in FaultSets(CourseSyncSites, Budget) :
          LET r == CoordinatorCourseSync(notionCourses, F)
          IN  /\ notionCourses' = notionCourses \o r.pages
              /\ UNCHANGED <<notionAssignments, sync_logs>>
              /\ Return(r.summary, F)

sync_courses ==
    /\ CanRun("service_courses")
    /\ \E F \in FaultSets(CourseSyncSites \cup StoreSites \cup LogSites, Budget) :
          LET r == ServiceSyncCourses(notionCourses, F)
          IN  /\ notionCourses' = notionCourses \o r.pages
              /\ sync_logs' = sync_logs \o ServiceSyncCoursesLogs(r.summary, F)
              /\ UNCHANGED notionAssignments
              /\ Return(r.summary, F)

start_canvas_notion_sync ==
    /\ CanRun("api_courses")
    /\ \E F \in FaultSets(CourseSyncSites \cup StoreSites \cup LogSites, Budget) :
          LET r == start_canvas_notion_sync_result(notionCourses, F)
          IN  /\ notionCourses' = notionCourses \o r.pages
              /\ sync_logs' = sync_logs \o r.logs
              /\ UNCHANGED notionAssignments
              /\ Return(r.summary, F)

sync_canvas_assignments ==
    /\ CanRun("api_assignments")
    /\ \E F \in FaultSets(AssignmentSyncSites \cup LogSites, Budget) :
       \E synced_courses \in SyncedCourseLists(notionCourses, F) :
          LET r == sync_canvas_assignments_result(synced_courses, notionAssignments, F)
          IN  /\ notionAssignments' = notionAssignments \o r.pages
              /\ sync_logs' = sync_logs \o r.logs
              /\ UNCHANGED notionCourses
              /\ Return(r.summary, F)

sync_assignments ==
    /\ CanRun("service_assignments")
    /\ \E F \in FaultSets(AssignmentSyncSites \cup StoreSites, Budget) :
       \E synced_courses \in SyncedCourseLists(notionCourses, F) :
          LET r == ServiceSyncAssignments(synced_courses, notionAssignments, F)
          IN  /\ notionAssignments' = notionAssignments \o r.pages
              /\ UNCHANGED <<notionCourses, sync_logs>>
              /\ Return(r.summary, F)

sync_assignments_for_courses ==
    /\ CanRun("coordinator_assignments")
    /\ \E F \in FaultSets(AssignmentSyncSites, Budget) :
       \E synced_courses \in SyncedCourseLists(notionCourses, F) :
          LET r == CoordinatorSyncAssignments(synced_courses, notionAssignments, F)
          IN  /\ notionAssignments' = notionAssignments \o r.pages
              /\ UNCHANGED <<notionCourses, sync_logs>>
              /\ Return(r.summary, F)

Next ==
    \/ sync_current_semester_courses
    \/ sync_courses
    \/ sync_assignments
    \/ sync_assignments_for_courses
    \/ start_canvas_notion_sync
    \/ sync_canvas_assignments

Spec == Init /\ [][Next]_vars

(***************************************************************************)
(* Properties of Spec.                                                     *)
(***************************************************************************)
CourseKinds == {"coordinator_courses", "service_courses"}
AssignmentKinds == {"coordinator_assignments", "service_assignments"}

\* the last call was the second of two calls in a row by a user with credentials, both
\* without a failing call
SecondCleanRun == runNo = "second" /\ credentials = "ok" /\ prev.faults = 0 /\ env = {}

\* how often item x occurs in the list s
Occurrences(s, x) == Cardinality({i \in 1..Len(s) : s[i] = x})

\* the list s without the item x
Without(s, x) == Pick(s, {i \in 1..Len(s) : s[i] # x}, 1)

\* C1: when SyncCoordinator.sync_current_semester_courses has run twice in a row over the
\* same current-term courses and every create succeeded, the second run returns
\* courses_created = 0 and courses_skipped = courses_found.
C1_CourseSyncIdempotent ==
    (SecondCleanRun /\ result.kind = "coordinator_courses")
        => (result.created = 0 /\ result.skipped = result.found)

\* C2: when an assignment sync has run twice in a row over the same assignments of
\* already-synced courses and every create succeeded, the second run returns
\* assignments_created = 0 and assignments_skipped = assignments_found.
C2_AssignmentSyncIdempotent ==
    (/\ SecondCleanRun
     /\ result.kind \in AssignmentKinds
     /\ credentials = "ok"
     /\ prev.summary.courses_processed = numCourses
     /\ result.courses_processed = numCourses)
        => (result.created = 0 /\ result.skipped = result.found)

Rerun(F) ==
    LET kind == result'.kind
        synced_courses == IF result'.courses_processed > 0 THEN AlreadySyncedCourses ELSE <<>>
    IN  CASE kind = "coordinator_courses" -> CoordinatorCourseSync(notionCourses, F).summary
          [] kind = "service_courses" -> ServiceSyncCourses(notionCourses, F).summary
          [] kind = "service_assignments" ->
                 ServiceSyncAssignments(synced_courses, notionAssignments, F).summary
          [] kind = "coordinator_assignments" ->
                 CoordinatorSyncAssignments(synced_courses, notionAssignments, F).summary
          [] kind = "api_courses" -> start_canvas_notion_sync_result(notionCourses, F).summary
          [] kind = "api_assignments" ->
                 sync_canvas_assignments_result(synced_courses, notionAssignments, F).summary

\* the item of the failing create x
FailedItem(x) ==
    IF x.site = "course" THEN CourseItem(x.c)
    ELSE [canvas_id |-> AssignmentId(x.c, x.j), name |-> <<x.c, x.j>>]

\* C4 for one sync call: for every item xk whose create failed in the call and would have
\* been created had it succeeded, xk is once in the failed list and not in the created
\* list, and apart from xk the created list, the failed list, the skipped count and the
\* found count are those of the call in which xk succeeds.
C4_Step ==
    \A x \in env' :
        x.site \in {"course", "item"} =>
            \A r0 \in {Rerun(env' \ {x})} :
            LET xk == FailedItem(x)
                r1 == result'
            IN  Occurrences(r0.created_items, xk) = 1 =>
                    /\ Occurrences(r1.failed_items, xk) = 1
                    /\ Occurrences(r1.created_items, xk) = 0
                    /\ r1.created_items = Without(r0.created_items, xk)
                    /\ Without(r1.failed_items, xk) = r0.failed_items
                    /\ r1.skipped = r0.skipped
                    /\ r1.found = r0.found

\* C4: in every sync, a failing create of one item (no id returned, or a step raising)
\* puts exactly that item in the failed list once, keeps it out of the created list, and
\* leaves every other item of the batch with the outcome it has when the item succeeds.
C4_PerItemIsolation == [][C4_Step]_vars

\* C4 witness: a course sync in which a step for the first course raised and the second
\* course was created after it.
C4_Witness ==
    /\ result.kind = "coordinator_courses"
    /\ Site("course", 1, 0, "raise") \in env
    /\ result.failed_items = <<CourseItem(1)>>
    /\ result.created_items = <<CourseItem(2)>>

\* C5: in an assignment sync over several synced courses in which the fetch of one
\* course's assignment list fails, courses_processed is the number of synced courses,
\* there is exactly one failed item, for that course, and every sibling course's
\* assignments are all created or skipped.
C5_FetchFailureIsOneFailedItem ==
    \A x \in env :
        (/\ x.site = "fetch"
         /\ env = {x}
         /\ result.kind \in AssignmentKinds
         /\ result.courses_processed >= 2
         /\ numAssignments >= 1)
            => /\ result.courses_processed = numCourses
               /\ result.failed = 1
               /\ Len(result.failed_items) = 1
               /\ result.created + result.skipped = (numCourses - 1) * numAssignments

\* C6: a sync entry point raises only when the user's credentials are missing: whatever
\* call to Canvas, Notion or the store fails once they are validated, the caller gets a
\* summary.
C6_RaisesOnlyForCredentials ==
    (result.kind \in {"coordinator_courses", "service_courses", "service_assignments"}
     /\ result.raised) => credentials # "ok"

\* C6 witness: CourseSyncService.sync_courses created its courses, the settings update
\* after the sync failed, and the caller got the summary.
C6_Witness ==
    /\ result.kind = "service_courses"
    /\ credentials = "ok"
    /\ Site("store", 0, 0, "") \in env
    /\ result.success
    /\ result.created > 0
    /\ ~result.raised

\* C7: with the Canvas or the Notion credentials missing, CourseSyncService.sync_courses
\* and AssignmentSyncService.sync_assignments both end in an error raised to the caller.
C7_MissingCredentialsRaise ==
    (result.kind \in {"service_courses", "service_assignments"} /\ credentials # "ok")
        => result.raised

\* the ids in the duplicate index an assignment sync builds in the current state
IndexIds(F) ==
    LET existing == get_existing_assignments(notionAssignments, F)
    IN  {existing[i].canvas_assignment_id.v : i \in 1..Len(existing)}

\* C9 for one assignment sync: two assignments of the fetched batches with the same id
\* that is not in the index built at the start, both fetched and both creates
\* succeeding, are both in the created list.
C9_Step ==
    (result'.kind \in AssignmentKinds /\ result'.courses_processed > 0) =>
        \A c1, c2 \in 1..numCourses : \A j1, j2 \in 1..numAssignments :
            (/\ <<c1, j1>> # <<c2, j2>>
             /\ AssignmentId(c1, j1) = AssignmentId(c2, j2)
             /\ AssignmentId(c1, j1) \notin IndexIds(env')
             /\ ~FetchFails(env', c1) /\ ~FetchFails(env', c2)
             /\ Outcome(env', "item", c1, j1) = "ok"
             /\ Outcome(env', "item", c2, j2) = "ok")
                => /\ Occurrences(result'.created_items, FailedItem(Site("item", c1, j1, ""))) = 1
                   /\ Occurrences(result'.created_items, FailedItem(Site("item", c2, j2, ""))) = 1

\* C9: when one run fetches the same assignment id twice, inside one course or across
\* two courses, and the id is not in the duplicate index built at the start, both
\* occurrences are created in that run.
C9_InRunDuplicatesBothCreated == [][C9_Step]_vars

\* C9 witness: one course with the same id twice, both created by one run.
C9_Witness ==
    /\ result.kind = "service_assignments"
    /\ idPattern = "dup_in_course"
    /\ numAssignments = 2
    /\ result.created_items = <<[canvas_id |-> AssignmentId(1, 1), name |-> <<1, 1>>],
                                [canvas_id |-> AssignmentId(1, 2), name |-> <<1, 2>>]>>

\* the entry points that write the sync log
LoggingKinds == {"service_courses", "api_courses", "api_assignments"}

LogSite == Site("log", 0, 0, "")

\* C11 for one sync call: when the write of the log entry does not fail, the sync_logs
\* collection has exactly one entry more after the call than before it.
C11_Step ==
    (result'.kind \in LoggingKinds /\ LogSite \notin env')
        => Len(sync_logs') = Len(sync_logs) + 1

\* C11: every sync invocation appends exactly one sync-log entry, whether it succeeds,
\* returns success = false without an exception, or raises.
C11_OneLogEntryPerInvocation == [][C11_Step]_vars

\* C12 for one sync call: when the write of the log entry fails, the caller gets what it
\* gets from the same call with a log write that works.
C12_Step ==
    (result'.kind \in LoggingKinds /\ LogSite \in env')
        => result' = Rerun(env' \ {LogSite})

\* C12: a logging failure never fails the sync: when appending the sync-log entry fails,
\* the sync call still gives its caller the result it gives without the logging failure,
\* on the success path and on the failure path.
C12_LoggingFailureKeepsResult == [][C12_Step]_vars

\* C12 witness: CourseSyncService.sync_courses created its courses, the write of the
\* "success" log entry failed, nothing was appended and the caller got the summary.
C12_Witness ==
    /\ result.kind = "service_courses"
    /\ credentials = "ok"
    /\ LogSite \in env
    /\ result.success
    /\ result.created > 0
    /\ ~result.raised
    /\ sync_logs = <<>>

\* the query that builds the duplicate index of the last sync call failed
IndexBuildFailed ==
    \/ result.kind \in CourseKinds /\ Site("synced_query", 0, 0, "") \in env
    \/ result.kind \in AssignmentKinds /\ Site("index_query", 0, 0, "") \in env

\* C22: an item a sync call created is never created again by the next sync call of the
\* same kind, also when the query that builds the duplicate index fails in that call: a
\* failed index build never goes on to create against an empty index.
C22_NoRecreationAfterFailedIndexBuild ==
    (/\ runNo = "second"
     /\ IndexBuildFailed
     /\ prev.summary.kind = result.kind)
        => \A i \in 1..Len(result.created_items) :
              Occurrences(prev.summary.created_items, result.created_items[i]) = 0

(***************************************************************************)
(* SpecConc: the fan-out of AssignmentSyncService.sync_assignments, one    *)
(* step per acquire and per release.  gather starts one task per synced    *)
(* course behind semaphore (3 permits); a course inside                    *)
(* _sync_course_assignments starts one task per new assignment behind its  *)
(* own semaphore (8 permits).  The tasks of a tier run the same code, so   *)
(* the state counts them:                                                  *)
(*   conc.waiting  course tasks that have not acquired semaphore           *)
(*   conc.sem      the value of the course semaphore                       *)
(*   conc.active   the bag of courses inside _sync_course_assignments,     *)
(*                 each [sem, todo, inside]: the value of its semaphore,   *)
(*                 its assignment tasks that have not acquired it, its     *)
(*                 tasks inside _process_single_assignment                 *)
(*   conc.done     course tasks that have left                             *)
(***************************************************************************)
\* a semaphore that never blocks
NeverLocked(sem) == FALSE

\* asyncio.Semaphore.locked(): acquire() goes on only when the value is above 0
Locked(sem) == sem = 0

\* a semaphore whose permit is not given back
Leak(sem) == sem

\* __aexit__ of "async with semaphore": the permit goes back however the body ended
Release(sem) == sem + 1

\* a course task right after it entered: either no new assignment (an early return
\* follows) or every new assignment's task waiting for the course's semaphore
CourseEntered(n) == [sem |-> AssignmentSemaphore, todo |-> n, inside |-> 0]

InitConc ==
    /\ numCourses = ConcCourses
    /\ numAssignments = ConcAssignments
    /\ idPattern = "distinct"
    /\ credentials = "ok"
    /\ notionCourses = <<>>
    /\ notionAssignments = <<>>
    /\ sync_logs = <<>>
    /\ result = NoResult
    /\ env = {}
    /\ prev = [summary |-> NoResult, faults |-> 0]
    /\ runNo = "none"
    /\ conc = [waiting |-> numCourses, sem |-> CourseSemaphore, active |-> EmptyBag, done |-> 0]
    /\ inv_ = <<>>
    /\ current_user_email = "none"
    /\ fetch = <<>>
    /\ call = <<>>
    /\ gather = <<>>

ConcUnchanged ==
    UNCHANGED <<numCourses, numAssignments, idPattern, credentials, notionCourses,
                notionAssignments, sync_logs, result, env, prev, runNo, inv_,
                current_user_email, fetch, call, gather>>

\* process_course_with_semaphore: "async with semaphore" entered
CourseAcquire ==
    /\ conc.waiting > 0
    /\ ~Locked(conc.sem)
    /\ \E n \in {0, numAssignments} :
          conc' = [conc EXCEPT !.waiting = @ - 1, !.sem = @ - 1,
                               !.active = @ (+) SetToBag({CourseEntered(n)})]
    /\ ConcUnchanged

\* process_assignment_with_semaphore: "async with semaphore" entered
AssignmentAcquire ==
    /\ \E k \in BagToSet(conc.active) :
          /\ k.todo > 0
          /\ ~Locked(k.sem)
          /\ conc' = [conc EXCEPT !.active =
                         (@ (-) SetToBag({k}))
                         (+) SetToBag({[sem |-> k.sem - 1, todo |-> k.todo - 1,
                                        inside |-> k.inside + 1]})]
    /\ ConcUnchanged

AssignmentLeaves(k) ==
    /\ k.inside > 0
    /\ conc' = [conc EXCEPT !.active =
                   (@ (-) SetToBag({k}))
                   (+) SetToBag({[sem |-> Release(k.sem), todo |-> k.todo,
                                  inside |-> k.inside - 1]})]
    /\ ConcUnchanged

\* _process_single_assignment returned
AssignmentFinish == \E k \in BagToSet(conc.active) : AssignmentLeaves(k)

\* the body of an assignment task raised
AssignmentRaise == \E k \in BagToSet(conc.active) : AssignmentLeaves(k)

CourseLeaves(k) ==
    /\ k.inside = 0
    /\ conc' = [conc EXCEPT !.active = @ (-) SetToBag({k}), !.sem = Release(@),
                            !.done = @ + 1]
    /\ ConcUnchanged

\* _sync_course_assignments returned: every assignment task of its gather has ended
CourseFinish == \E k \in BagToSet(conc.active) : k.todo = 0 /\ CourseLeaves(k)

\* _sync_course_assignments raised, which it can only do outside its gather
CourseRaise ==
    \E k \in BagToSet(conc.active) : k.todo \in {0, numAssignments} /\ CourseLeaves(k)

NextConc ==
    \/ CourseAcquire
    \/ AssignmentAcquire
    \/ AssignmentFinish
    \/ AssignmentRaise
    \/ CourseFinish
    \/ CourseRaise

SpecConc == InitConc /\ [][NextConc]_vars

RECURSIVE InFlight(_, _)
\* the assignment tasks inside _process_single_assignment over the courses S of bag B
InFlight(B, S) ==
    IF S = {} THEN 0
    ELSE LET k == CHOOSE x \in S : TRUE
         IN  k.inside * CopiesIn(k, B) + InFlight(B, S \ {k})

\* C8: in every interleaving at most CourseSemaphore courses are inside
\* _sync_course_assignments, at most AssignmentSemaphore assignments of one course are
\* inside _process_single_assignment, so at most their product are in flight, and every
\* permit that is not held by a task inside is back in its semaphore.
C8_ConcurrencyBound ==
    /\ BagCardinality(conc.active) <= CourseSemaphore
    /\ conc.sem + BagCardinality(conc.active) = CourseSemaphore
    /\ \A k \in BagToSet(conc.active) :
          /\ k.inside <= AssignmentSemaphore
          /\ k.sem + k.inside = AssignmentSemaphore
    /\ InFlight(conc.active, BagToSet(conc.active)) <= CourseSemaphore * AssignmentSemaphore

\* C8 witness: both tiers are full while a fourth course and a ninth assignment wait.
C8_Witness ==
    /\ conc # <<>>
    /\ conc.waiting > 0
    /\ conc.sem = 0
    /\ InFlight(conc.active, BagToSet(conc.active)) = CourseSemaphore * AssignmentSemaphore
    /\ \A k \in BagToSet(conc.active) : k.todo > 0

\* the event loop resumes every task that can go on: a task waiting for a free permit
\* gets it, and a call a task waits for returns or raises
SpecConcLive ==
    /\ InitConc
    /\ [][NextConc]_vars
    /\ WF_vars(CourseAcquire)
    /\ WF_vars(AssignmentAcquire)
    /\ WF_vars(AssignmentFinish \/ AssignmentRaise)
    /\ WF_vars(CourseFinish \/ CourseRaise)

\* all course tasks have ended, none waits for a permit and none holds one
AllTasksEnded ==
    conc.waiting = 0 /\ conc.active = EmptyBag /\ conc.done = numCourses

\* C25: provided every external call eventually returns or raises, every course task
\* eventually gets one of the CourseSemaphore permits, every assignment task one of the
\* AssignmentSemaphore permits of its course, and the fan-out of sync_assignments ends:
\* there is no deadlock between the two tiers.
C25_Terminates == <>[]AllTasksEnded

\* C25 witness: more course tasks than permits, all ended, all permits back.
C25_Witness ==
    /\ AllTasksEnded
    /\ numCourses > CourseSemaphore
    /\ conc.sem = CourseSemaphore

(***************************************************************************)
(* SpecUsers: two sync_assignments invocations for different users on one  *)
(* AssignmentSyncService instance, one step per stretch of code between    *)
(* two suspensions (the requests to Notion and Canvas).  Each invocation   *)
(* syncs one assignment of one course.  inv_[u] is the invocation for user *)
(* u: where it is suspended, and whose settings each of its steps used.    *)
(***************************************************************************)
Users == {"user_a", "user_b"}

NotRead == "not_read"

InvocationStart ==
    [pc |-> "idle", settings_user |-> NotRead, courses_user |-> NotRead,
     index_user |-> NotRead, database_user |-> NotRead, mapping_user |-> NotRead]

InitUsers ==
    /\ numCourses = 1
    /\ numAssignments = 1
    /\ idPattern = "distinct"
    /\ credentials = "ok"
    /\ notionCourses = <<>>
    /\ notionAssignments = <<>>
    /\ sync_logs = <<>>
    /\ result = NoResult
    /\ env = {}
    /\ prev = [summary |-> NoResult, faults |-> 0]
    /\ runNo = "none"
    /\ conc = <<>>
    /\ inv_ = [u \in Users |-> InvocationStart]
    /\ current_user_email = "none"
    /\ fetch = <<>>
    /\ call = <<>>
    /\ gather = <<>>

UsersUnchanged ==
    UNCHANGED <<numCourses, numAssignments, idPattern, credentials, notionCourses,
                notionAssignments, sync_logs, result, env, prev, runNo, conc, fetch, call, gather>>

\* sync_assignments up to the Notion query of _get_synced_courses: the user is stored in
\* the instance, the settings and the synced courses are asked for with the argument
Start(u) ==
    /\ inv_[u].pc = "idle"
    /\ current_user_email' = u
    /\ inv_' = [inv_ EXCEPT ![u].pc = "await_courses", ![u].settings_user = u,
                            ![u].courses_user = u]
    /\ UsersUnchanged

\* the synced courses are back: without any the call returns; with some,
\* _get_existing_assignments_batch takes the user from the instance and queries Notion
CoursesReturn(u) ==
    /\ inv_[u].pc = "await_courses"
    /\ \E synced_courses \in SyncedCourseLists(notionCourses, {}) :
          IF synced_courses = <<>>
          THEN inv_' = [inv_ EXCEPT ![u].pc = "done"]
          ELSE inv_' = [inv_ EXCEPT ![u].pc = "await_index",
                                    ![u].index_user = current_user_email]
    /\ UNCHANGED current_user_email
    /\ UsersUnchanged

\* the index is back: the fan-out starts, _process_single_assignment asks Canvas for the
\* submission
IndexReturn(u) ==
    /\ inv_[u].pc = "await_index"
    /\ inv_' = [inv_ EXCEPT ![u].pc = "await_submission"]
    /\ UNCHANGED current_user_email
    /\ UsersUnchanged

\* the submission is back: _get_assignments_database_id takes the user from the instance
\* and asks Notion for the database, then the page is created
SubmissionReturn(u) ==
    /\ inv_[u].pc = "await_submission"
    /\ inv_' = [inv_ EXCEPT ![u].pc = "await_create",
                            ![u].database_user = current_user_email]
    /\ UNCHANGED current_user_email
    /\ UsersUnchanged

\* the page is created: _store_assignment_mapping writes the mapping with the user taken
\* from the instance, and the call returns
CreateReturn(u) ==
    /\ inv_[u].pc = "await_create"
    /\ inv_' = [inv_ EXCEPT ![u].pc = "done", ![u].mapping_user = current_user_email]
    /\ UNCHANGED current_user_email
    /\ UsersUnchanged

NextUsers ==
    \E u \in Users :
        \/ Start(u)
        \/ CoursesReturn(u)
        \/ IndexReturn(u)
        \/ SubmissionReturn(u)
        \/ CreateReturn(u)

SpecUsers == InitUsers /\ [][NextUsers]_vars

\* C10: when two sync_assignments invocations for different users overlap on one
\* instance, every step of an invocation (settings, duplicate index, assignments
\* database, mapping) uses the user of that invocation.
C10_PerUserIsolation ==
    \A u \in Users :
        /\ inv_[u].settings_user \in {NotRead, u}
        /\ inv_[u].courses_user \in {NotRead, u}
        /\ inv_[u].index_user \in {NotRead, u}
        /\ inv_[u].database_user \in {NotRead, u}
        /\ inv_[u].mapping_user \in {NotRead, u}

(***************************************************************************)
(* SpecGather: one AssignmentSyncService.sync_assignments run, one step    *)
(* per task that ends.  The duplicate index is fetched, then one task per  *)
(* synced course runs, and inside a course one task per new assignment;    *)
(* the tasks of a gather end in any order.  The semaphores in front of the *)
(* tasks are the subject of SpecConc and are left out here.                *)
(***************************************************************************)
MaxGatherCourses == 2

\* how one course's task goes: "return" with the outcome of each of its assignments
\* ("ok": a page was created; "fail": _process_single_assignment caught an error;
\* "raise": the assignment task ended in a BaseException such as CancelledError),
\* "except": an error inside the try of _sync_course_assignments, "raise": the course
\* task ended in a BaseException
Plan(how, items) == [how |-> how, items |-> items]

CoursePlans ==
    {Plan("return", <<>>), Plan("return", <<"ok">>), Plan("return", <<"ok", "fail">>),
     Plan("return", <<"raise", "ok">>), Plan("except", <<"ok">>), Plan("raise", <<"ok">>)}

\* a.id of assignment j of the i-th synced course
GatherAssignmentId(i, j) == 1000 * i + j

\* the result of a task of a gather, with the task's position in the argument list
Ended(task, r) == [task |-> task, result |-> r]

\* the list an as_completed loop would collect: the results in the order the tasks ended
AsCompleted(ended, tasks) == [k \in 1..Len(tasks) |-> ended[k].result]

\* asyncio.gather(*tasks, return_exceptions=True): the results in the order of the
\* arguments, whatever the order the tasks ended in
Gathered(ended, tasks) ==
    [k \in 1..Len(tasks) |->
        ended[CHOOSE e \in 1..Len(ended) : ended[e].task = tasks[k]].result]

\* an index that learns the id of the page an assignment task created
IndexWithCreated(ids, id) == ids \cup {id}

\* existing_assignment_ids after an assignment task created the page of id: the set is
\* passed to the course tasks and only read
IndexAfterCreate(ids, id) == ids

\* the exception object gather returns for a course task
ExceptionObject == [exception |-> TRUE]

IsException(r) == "exception" \in DOMAIN r

FailedAssignment(canvas_id, error) == [canvas_id |-> canvas_id, error |-> error]

\* _sync_course_assignments, the loop over the gathered results of the new assignments
\* and the dict returned after it
ProcessResults(i, found, new_assignments, results) ==
    LET n == Len(new_assignments)
        ok == {k \in 1..n : results[k] = "ok"}
        info(k) == [canvas_id |-> GatherAssignmentId(i, new_assignments[k])]
        failed_info(k) ==
            FailedAssignment(GatherAssignmentId(i, new_assignments[k]),
                             IF results[k] = "fail" THEN "failed_info"
                             ELSE "Unexpected result type")
    IN  CourseResult(found, Cardinality(ok), n - Cardinality(ok), found - n,
                     Pick([k \in 1..n |-> info(k)], ok, 1),
                     Pick([k \in 1..n |-> failed_info(k)], (1..n) \ ok, 1), <<>>)

\* _sync_course_assignments, the dict its except clause returns
ExceptResult(i) == CourseResult(0, 0, 1, 0, <<>>, <<FailedAssignment(i, "str(e)")>>, <<>>)

\* AssignmentSyncResponse
AssignmentSyncResponse(success, courses_processed, t) ==
    [success |-> success, courses_processed |-> courses_processed,
     assignments_found |-> t.found, assignments_created |-> t.created,
     assignments_failed |-> t.failed, assignments_skipped |-> t.skipped,
     created_assignments |-> t.created_items, failed_assignments |-> t.failed_items]

RECURSIVE AggregateGathered(_, _)
\* sync_assignments, the loop over course_results from position i on: an exception
\* object adds an entry for course i to failed_assignments and nothing to the totals
AggregateGathered(course_results, i) ==
    IF i > Len(course_results) THEN CourseResult(0, 0, 0, 0, <<>>, <<>>, <<>>)
    ELSE LET r == course_results[i]
             t == AggregateGathered(course_results, i + 1)
         IN  IF IsException(r)
             THEN [t EXCEPT !.failed_items =
                                <<FailedAssignment(i, "Course sync failed")>> \o @]
             ELSE CourseResult(r.found + t.found, r.created + t.created,
                               r.failed + t.failed, r.skipped + t.skipped,
                               r.created_items \o t.created_items,
                               r.failed_items \o t.failed_items, <<>>)

\* sync_assignments from the gathered course results to the response
Respond(course_results) ==
    LET t == AggregateGathered(course_results, 1)
    IN  AssignmentSyncResponse(t.failed = 0, Len(course_results), t)

\* the new assignments of course i, in the order Canvas listed them
NewAssignments(i, ids) ==
    LET items == gather.plans[i].items
    IN  Pick([j \in 1..Len(items) |-> j],
             {j \in 1..Len(items) : GatherAssignmentId(i, j) \notin ids}, 1)

NotStarted == [state |-> "waiting", new_assignments |-> <<>>, ended |-> <<>>]

InitGather ==
    /\ numCourses = 0
    /\ numAssignments = 0
    /\ idPattern = "distinct"
    /\ credentials = "ok"
    /\ notionCourses = <<>>
    /\ notionAssignments = <<>>
    /\ sync_logs = <<>>
    /\ result = NoResult
    /\ env = {}
    /\ prev = [summary |-> NoResult, faults |-> 0]
    /\ runNo = "none"
    /\ conc = <<>>
    /\ inv_ = <<>>
    /\ current_user_email = "none"
    /\ fetch = <<>>
    /\ call = <<>>
    /\ \E n \in 1..MaxGatherCourses, pages \in {<<>>, <<[weighting |-> 1001]>>} :
       \E plans \in [1..n -> CoursePlans] :
          gather = [plans |-> plans, pages |-> pages, phase |-> "start", builds |-> 0,
                    built |-> {}, existing_assignment_ids |-> {},
                    course |-> [i \in 1..n |-> NotStarted], ended |-> <<>>,
                    response |-> <<>>]

GatherUnchanged ==
    UNCHANGED <<numCourses, numAssignments, idPattern, credentials, notionCourses,
                notionAssignments, sync_logs, result, env, prev, runNo, conc, inv_,
                current_user_email, fetch, call>>

\* sync_assignments up to the fan-out: the index is fetched and made a set of ints
_get_existing_assignments_batch ==
    /\ gather.phase = "start"
    /\ \E F \in {{}, {Site("index_query", 0, 0, "")}} :
          LET existing_assignments == get_existing_assignments(gather.pages, F)
              ids == {py_int(existing_assignments[k].canvas_assignment_id) :
                          k \in 1..Len(existing_assignments)}
          IN  gather' = [gather EXCEPT !.phase = "fanout", !.builds = @ + 1,
                                       !.built = ids, !.existing_assignment_ids = ids]
    /\ GatherUnchanged

\* a course task fetched its assignments and filtered them against the index
process_course_with_semaphore ==
    /\ gather.phase = "fanout"
    /\ \E i \in DOMAIN gather.course :
          /\ gather.course[i].state = "waiting"
          /\ gather' = [gather EXCEPT !.course[i] =
                            [state |-> "inside",
                             new_assignments |->
                                 NewAssignments(i, gather.existing_assignment_ids),
                             ended |-> <<>>]]
    /\ GatherUnchanged

\* an assignment task of a course that goes as planned ended
process_assignment_with_semaphore ==
    /\ \E i \in DOMAIN gather.course :
          LET k == gather.course[i]
              left == {j \in {k.new_assignments[x] : x \in 1..Len(k.new_assignments)} :
                          \A e \in 1..Len(k.ended) : k.ended[e].task # j}
          IN  /\ k.state = "inside"
              /\ gather.plans[i].how = "return"
              /\ \E j \in left :
                    LET outcome == gather.plans[i].items[j]
                    IN  gather' =
                            [gather EXCEPT
                                !.course[i].ended = Append(@, Ended(j, outcome)),
                                !.existing_assignment_ids =
                                    IF outcome = "ok"
                                    THEN IndexAfterCreate(@, GatherAssignmentId(i, j))
                                    ELSE @]
    /\ GatherUnchanged

CourseEnds(i, r) ==
    /\ gather.course[i].state = "inside"
    /\ gather' = [gather EXCEPT !.course[i].state = "done",
                                !.ended = Append(@, Ended(i, r))]
    /\ GatherUnchanged

\* _sync_course_assignments returned after its gather, or early without one
_sync_course_assignments_returns ==
    \E i \in DOMAIN gather.course :
        LET k == gather.course[i]
        IN  /\ gather.plans[i].how = "return"
            /\ Len(k.ended) = Len(k.new_assignments)
            /\ CourseEnds(i, ProcessResults(i, Len(gather.plans[i].items),
                                            k.new_assignments,
                                            Gathered(k.ended, k.new_assignments)))

\* _sync_course_assignments returned from its except clause
_sync_course_assignments_except ==
    \E i \in DOMAIN gather.course :
        gather.plans[i].how = "except" /\ CourseEnds(i, ExceptResult(i))

\* the course task ended in an exception that no except clause of it catches
_sync_course_assignments_raises ==
    \E i \in DOMAIN gather.course :
        gather.plans[i].how = "raise" /\ CourseEnds(i, ExceptionObject)

\* sync_assignments after its gather: the aggregation and the response
sync_assignments_returns ==
    /\ gather.phase = "fanout"
    /\ Len(gather.ended) = Len(gather.plans)
    /\ gather' = [gather EXCEPT
                     !.phase = "returned",
                     !.response =
                         Respond(Gathered(gather.ended,
                                          [i \in 1..Len(gather.plans) |-> i]))]
    /\ GatherUnchanged

NextGather ==
    \/ _get_existing_assignments_batch
    \/ process_course_with_semaphore
    \/ process_assignment_with_semaphore
    \/ _sync_course_assignments_returns
    \/ _sync_course_assignments_except
    \/ _sync_course_assignments_raises
    \/ sync_assignments_returns

SpecGather == InitGather /\ [][NextGather]_vars

\* C23: within one sync_assignments run the duplicate index is built exactly once, before
\* any course task starts, and from then to the end of the run it is identical to what
\* was built.
C23_Step ==
    /\ gather'.builds <= 1
    /\ gather'.builds # gather.builds =>
           \A i \in DOMAIN gather.course : gather.course[i].state = "waiting"
    /\ (\E i \in DOMAIN gather.course : gather'.course[i].state # "waiting") =>
           gather'.builds = 1
    /\ gather'.phase # "start" => gather'.existing_assignment_ids = gather'.built

C23_IndexBuiltOnceAndReadOnly == [][C23_Step]_vars

\* C23 witness: a run that built the index, created a page in each of two courses and
\* returned with the index as it was built.
C23_Witness ==
    /\ gather.phase = "returned"
    /\ gather.builds = 1
    /\ Len(gather.plans) = 2
    /\ \A i \in 1..2 : \E e \in 1..Len(gather.course[i].ended) :
           gather.course[i].ended[e].result = "ok"
    /\ gather.existing_assignment_ids = gather.built

\* what the task of course i gives when its assignment tasks are taken in list order
InListOrder(i) ==
    LET plan == gather.plans[i]
        new_assignments == NewAssignments(i, gather.built)
    IN  IF plan.how = "raise" THEN ExceptionObject
        ELSE IF plan.how = "except" THEN ExceptResult(i)
        ELSE ProcessResults(i, Len(plan.items), new_assignments,
                            [k \in 1..Len(new_assignments) |->
                                plan.items[new_assignments[k]]])

\* C24: the response of sync_assignments depends only on the order of the synced courses,
\* the order of each course's assignments and each task's outcome: its counts, the order
\* of created_assignments and failed_assignments and the course or assignment each
\* failure names are those of the tasks taken in list order, whatever order they ended in.
C24_AggregationIndependentOfCompletionOrder ==
    gather.phase = "returned" =>
        gather.response = Respond([i \in 1..Len(gather.plans) |-> InListOrder(i)])

\* C24 witness: the second course's task ended before the first's, the second assignment
\* task of a course ended before its first, and the response lists created and failed
\* items.
C24_Witness ==
    /\ gather.phase = "returned"
    /\ Len(gather.plans) = 2
    /\ gather.ended[1].task = 2
    /\ \E i \in 1..2 : /\ Len(gather.course[i].ended) = 2
                       /\ gather.course[i].ended[1].task = 2
    /\ gather.response.created_assignments # <<>>
    /\ Len(gather.response.failed_assignments) > 1

\* C30: in the response of sync_assignments assignments_created is the length of
\* created_assignments and assignments_failed is the length of failed_assignments, on
\* every return path, a course task that ended in an exception object included.
C30_CountsMatchLists ==
    gather.phase = "returned" =>
        /\ gather.response.assignments_created = Len(gather.response.created_assignments)
        /\ gather.response.assignments_failed = Len(gather.response.failed_assignments)

(***************************************************************************)
(* SpecPages: one read of an upstream collection, one step per request.    *)
(* The collection holds fetch.total records and serves them in pages; the  *)
(* request for page fetch.failing fails (0: none fails).                   *)
(***************************************************************************)
MaxRecords == 201
MaxFailingPage == 3

\* the page sizes the readers ask for
DEFAULT_PER_PAGE == 100
per_page == 100
page_size == 100

Readers ==
    {"get_enrolled_courses", "get_course_assignments", "get_enhanced_course_assignments",
     "get_synced_courses", "get_existing_assignments"}

\* the number of records on page p of a collection of total records served size at a time
PageLen(total, p, size) ==
    IF total >= p * size THEN size
    ELSE IF total > (p - 1) * size THEN total - (p - 1) * size
    ELSE 0

InitPages ==
    /\ numCourses = 0
    /\ numAssignments = 0
    /\ idPattern = "distinct"
    /\ credentials = "ok"
    /\ notionCourses = <<>>
    /\ notionAssignments = <<>>
    /\ sync_logs = <<>>
    /\ result = NoResult
    /\ env = {}
    /\ prev = [summary |-> NoResult, faults |-> 0]
    /\ runNo = "none"
    /\ conc = <<>>
    /\ inv_ = <<>>
    /\ current_user_email = "none"
    /\ call = <<>>
    /\ gather = <<>>
    /\ \E reader \in Readers, total \in 0..MaxRecords, failing \in 0..MaxFailingPage :
          fetch = [reader |-> reader, total |-> total, failing |-> failing,
                   page |-> 1, collected |-> 0, returned |-> FALSE, value |-> 0]

PagesUnchanged ==
    UNCHANGED <<numCourses, numAssignments, idPattern, credentials, notionCourses,
                notionAssignments, sync_logs, result, env, prev, runNo, conc, inv_,
                current_user_email, call, gather>>

\* "return": the reader gives its caller a list of n records
ReturnList(n) == fetch' = [fetch EXCEPT !.returned = TRUE, !.value = n]

\* one GET with per_page and no page parameter: Canvas answers with the first page;
\* CanvasAPIError gives []
SinglePageRequest(reader) ==
    /\ fetch.reader = reader
    /\ ~fetch.returned
    /\ IF fetch.failing = 1
       THEN ReturnList(0)
       ELSE ReturnList(PageLen(fetch.total, 1, DEFAULT_PER_PAGE))
    /\ PagesUnchanged

\* CanvasAPIClient.get_enrolled_courses
get_enrolled_courses == SinglePageRequest("get_enrolled_courses")

\* CanvasAPIClient.get_course_assignments
get_course_assignments_request == SinglePageRequest("get_course_assignments")

\* EnhancedCanvasClient.get_enhanced_course_assignments: one pass of "while True"
get_enhanced_course_assignments ==
    /\ fetch.reader = "get_enhanced_course_assignments"
    /\ ~fetch.returned
    /\ LET n == PageLen(fetch.total, fetch.page, per_page)
       IN  IF fetch.failing = fetch.page
           THEN ReturnList(0)
           ELSE IF n = 0
           THEN ReturnList(fetch.collected)
           ELSE IF n < per_page
           THEN ReturnList(fetch.collected + n)
           ELSE fetch' = [fetch EXCEPT !.page = @ + 1, !.collected = @ + n]
    /\ PagesUnchanged

\* the records of a Notion result page that are put on the list
Decoded(reader, n) ==
    IF reader = "get_synced_courses"
    THEN IF NotionCourseInfoAccepts(py_int(StrV(1))) THEN n ELSE 0
    ELSE IF NotionAssignmentInfoAccepts({"notion_page_id", "canvas_assignment_id", "title"})
         THEN n ELSE 0

\* NotionWorkspaceManager.get_synced_courses / get_existing_assignments: one pass of
\* "while has_more"; any exception gives []
NotionQuery(reader) ==
    /\ fetch.reader = reader
    /\ ~fetch.returned
    /\ LET n == PageLen(fetch.total, fetch.page, page_size)
           has_more == fetch.total > fetch.page * page_size
       IN  IF fetch.failing = fetch.page
           THEN ReturnList(0)
           ELSE IF has_more
           THEN fetch' = [fetch EXCEPT !.page = @ + 1, !.collected = @ + Decoded(reader, n)]
           ELSE ReturnList(fetch.collected + Decoded(reader, n))
    /\ PagesUnchanged

get_synced_courses_query == NotionQuery("get_synced_courses")

get_existing_assignments_query == NotionQuery("get_existing_assignments")

NextPages ==
    \/ get_enrolled_courses
    \/ get_course_assignments_request
    \/ get_enhanced_course_assignments
    \/ get_synced_courses_query
    \/ get_existing_assignments_query

SpecPages == InitPages /\ [][NextPages]_vars

\* C13: every paginated read returns all the records upstream holds (more than 100 too),
\* and a request that fails on a later page is never turned into a shorter or empty list.
C13_PaginationComplete == fetch.returned => fetch.value = fetch.total

(***************************************************************************)
(* SpecMap: the mapping functions between Canvas and Notion records, each  *)
(* applied once to an argument drawn from a bounded set.  call holds the   *)
(* function, its argument and what it gave.                                *)
(***************************************************************************)
NoCall == [fn |-> "none"]

InitMap ==
    /\ numCourses = 0
    /\ numAssignments = 0
    /\ idPattern = "distinct"
    /\ credentials = "ok"
    /\ notionCourses = <<>>
    /\ notionAssignments = <<>>
    /\ sync_logs = <<>>
    /\ result = NoResult
    /\ env = {}
    /\ prev = [summary |-> NoResult, faults |-> 0]
    /\ runNo = "none"
    /\ conc = <<>>
    /\ inv_ = <<>>
    /\ current_user_email = "none"
    /\ fetch = <<>>
    /\ call = NoCall
    /\ gather = <<>>

MapUnchanged ==
    UNCHANGED <<numCourses, numAssignments, idPattern, credentials, notionCourses,
                notionAssignments, sync_logs, result, env, prev, runNo, conc, inv_,
                current_user_email, fetch, gather>>

\* no function has been applied yet
Idle == call = NoCall

\* fn(arg) gave value
Called(fn, arg, value) ==
    /\ call' = [fn |-> fn, arg |-> arg, value |-> value]
    /\ MapUnchanged

(***************************************************************************)
(* Due dates.  A Canvas timestamp is a date, a time of day and "Z" or an   *)
(* offset ("none": a bare YYYY-MM-DD); "" is the record EmptyDate.         *)
(***************************************************************************)
FirstYear == 2024
LastYear == 2025

IsLeap(y) == (y % 4 = 0 /\ y % 100 # 0) \/ y % 400 = 0

DaysInMonth(y, m) ==
    IF m = 2 THEN (IF IsLeap(y) THEN 29 ELSE 28)
    ELSE IF m \in {4, 6, 9, 11} THEN 30 ELSE 31

EmptyDate == [y |-> 0, m |-> 0, d |-> 0, hh |-> 0, mi |-> 0, tz |-> ""]

DueDays(y, m) == {1, 15, 29, DaysInMonth(y, m)} \cap (1..DaysInMonth(y, m))

YearMonths == (FirstYear..LastYear) \X (1..12)

\* the timestamps of the months of FirstYear..LastYear on the days days[<<y, m>>]
Timestamps(days, hours, minutes, zones) ==
    UNION {{[y |-> ym[1], m |-> ym[2], d |-> d, hh |-> hh, mi |-> mi, tz |-> tz] :
               d \in days[ym], hh \in hours, mi \in minutes, tz \in zones} :
           ym \in YearMonths}

DueTimestamps ==
    Timestamps([ym \in YearMonths |-> DueDays(ym[1], ym[2])],
               0..23, {0, 59}, {"Z", "-06:00", "+05:30"})

DateOnly ==
    {[y |-> y, m |-> m, d |-> d, hh |-> 0, mi |-> 0, tz |-> "none"] :
        y \in FirstYear..LastYear, m \in {1, 8, 12}, d \in {1, 28}}

\* the day before a date
DayBefore(t) ==
    IF t.d > 1 THEN [t EXCEPT !.d = @ - 1]
    ELSE IF t.m > 1 THEN [t EXCEPT !.m = @ - 1, !.d = DaysInMonth(t.y, t.m - 1)]
    ELSE [t EXCEPT !.y = @ - 1, !.m = 12, !.d = 31]

\* dt - timedelta(hours=h), 0 <= h <= 24: the wall clock moves, the tzinfo stays
MinusHours(t, h) ==
    IF t.hh >= h THEN [t EXCEPT !.hh = @ - h]
    ELSE [DayBefore(t) EXCEPT !.hh = t.hh + 24 - h]

\* strftime("%Y-%m-%dT%H:%M:%S-05:00")
strftime_est(t) == [t EXCEPT !.tz = "-05:00"]

\* app.utils.date_utils.format_canvas_due_date_for_notion_est
format_canvas_due_date_for_notion_est(date_string) ==
    IF date_string = EmptyDate THEN EmptyDate
    ELSE IF date_string.tz # "none"
    THEN strftime_est(MinusHours(date_string, 5))
    ELSE strftime_est([date_string EXCEPT !.hh = 12, !.mi = 0])

\* AssignmentMapper._format_due_date (assignment_mapper.py)
FormatDueDate(due_at_string) ==
    IF due_at_string = EmptyDate THEN EmptyDate
    ELSE format_canvas_due_date_for_notion_est(due_at_string)

_format_due_date ==
    /\ Idle
    /\ \E due_at \in DueTimestamps \cup DateOnly \cup {EmptyDate} :
          Called("_format_due_date", due_at, FormatDueDate(due_at))

\* the calendar date of a timestamp
DateOf(t) == <<t.y, t.m, t.d>>

\* C14: for every upstream due timestamp with a time of day (any hour, "Z" or an explicit
\* offset) the calendar date written for the assignment is the date of the upstream
\* timestamp, never the day before or after.
C14_DueDateStable ==
    (call.fn = "_format_due_date" /\ call.arg # EmptyDate /\ call.arg.tz # "none")
        => DateOf(call.value) = DateOf(call.arg)

(***************************************************************************)
(* Points.  A Canvas points_possible is absent, None, a number, a str that *)
(* float() parses, a str it does not parse ("text") or a list.             *)
(***************************************************************************)
MaxPoints == 2

AbsentV == [t |-> "absent", v |-> 0]
TextV == [t |-> "text", v |-> 0]
ListV == [t |-> "list", v |-> 0]
FloatV(n) == [t |-> "float", v |-> n]
RaiseV == [t |-> "raise", v |-> 0]

PointsValues ==
    {AbsentV, NoneV, TextV, ListV}
        \cup {IntV(n) : n \in -MaxPoints..MaxPoints}
        \cup {FloatV(n) : n \in -MaxPoints..MaxPoints}
        \cup {StrV(n) : n \in -MaxPoints..MaxPoints}

DEFAULT_POINTS == FloatV(0)

\* float(x): ValueError for a str that is no number, TypeError for None or a list
py_float(x) ==
    IF x.t \in {"int", "float", "str"} THEN FloatV(x.v) ELSE RaiseV

\* dict.get(key, default)
Get(x, default) == IF x = AbsentV THEN default ELSE x

\* AssignmentDataExtractor.extract_points_possible: [value, warning logged]
extract_points_possible(given) ==
    LET points_possible == Get(given, NoneV)
    IN  IF points_possible = NoneV THEN [value |-> DEFAULT_POINTS, logged |-> FALSE]
        ELSE IF py_float(points_possible) = RaiseV
        THEN [value |-> DEFAULT_POINTS, logged |-> TRUE]
        ELSE [value |-> py_float(points_possible), logged |-> FALSE]

\* "if v is not None and v != ''": the entry stays in the dict
Kept(v) == v # NoneV /\ v # AbsentV

\* AssignmentMapper.map_canvas_assignment_to_notion (assignment_mapper.py): the
\* total_score of the dict it returns
MapAssignment(given) ==
    LET points == extract_points_possible(given)
    IN  [raised |-> FALSE,
         logged |-> points.logged,
         total_score |-> IF Kept(points.value) THEN points.value ELSE AbsentV]

\* AssignmentMapper.map_canvas_assignment_to_notion (course_mapper.py)
MapAssignmentCourseMapper(given) ==
    LET got == Get(given, IntV(0))
        points_possible == IF got = NoneV THEN IntV(0) ELSE got
        total_score == py_float(points_possible)
    IN  IF total_score = RaiseV
        THEN [raised |-> TRUE, logged |-> FALSE, total_score |-> AbsentV]
        ELSE [raised |-> FALSE, logged |-> FALSE,
              total_score |-> IF Kept(total_score) THEN total_score ELSE AbsentV]

map_canvas_assignment_to_notion ==
    /\ Idle
    /\ \E points_possible \in PointsValues :
          Called("map_canvas_assignment_to_notion", points_possible,
                 MapAssignment(points_possible))

course_mapper_map_canvas_assignment_to_notion ==
    /\ Idle
    /\ \E points_possible \in PointsValues :
          Called("course_mapper.map_canvas_assignment_to_notion", points_possible,
                 MapAssignmentCourseMapper(points_possible))

Unparsable == {TextV, ListV}

\* C15: for every upstream points_possible (absent, null, non-numeric, zero, positive,
\* negative) the mapped points are a number, never null and never negative, 0.0 when the
\* upstream value is absent or unparsable; an unparsable value is logged and never makes
\* the mapper raise.
C15_PointsNeverNegative ==
    call.fn \in {"map_canvas_assignment_to_notion",
                 "course_mapper.map_canvas_assignment_to_notion"}
        => /\ ~call.value.raised
           /\ call.value.total_score.t = "float"
           /\ call.value.total_score.v >= 0
           /\ call.arg \in {AbsentV, NoneV} \cup Unparsable
                  => call.value.total_score = FloatV(0)
           /\ call.arg \in Unparsable => call.value.logged

(***************************************************************************)
(* Terms.  A start date is a timestamp as above, "" (EmptyDate) or a str   *)
(* that no parser takes (tz "garbage").                                    *)
(***************************************************************************)
Semester(season, year) == [season |-> season, year |-> year]

DEFAULT_SEMESTER == Semester("Fall", 2025)

Garbage == [EmptyDate EXCEPT !.tz = "garbage"]

FirstAndLastDay == [ym \in YearMonths |-> {1, DaysInMonth(ym[1], ym[2])}]

StartDates ==
    Timestamps(FirstAndLastDay, {0, 23}, {0}, {"Z", "-06:00"})
        \cup Timestamps(FirstAndLastDay, {0}, {0}, {"none"})
        \cup {EmptyDate, Garbage}

\* datetime.fromisoformat / datetime.strptime: the fields as written, no shift; a
\* ValueError for a str that is no date
Parses(date_string) == date_string.tz # "garbage"

\* app.utils.date_utils.determine_semester_from_date
determine_semester_from_date(date_string) ==
    IF date_string = EmptyDate THEN DEFAULT_SEMESTER
    ELSE IF ~Parses(date_string) THEN DEFAULT_SEMESTER
    ELSE IF date_string.m \in {1, 2, 3, 4, 5} THEN Semester("Spring", date_string.y)
    ELSE IF date_string.m \in {6, 7} THEN Semester("Summer", date_string.y)
    ELSE Semester("Fall", date_string.y)

\* CanvasAPIClient.determine_semester_from_date (utils/canvas_helper.py)
canvas_helper_determine_semester_from_date(start_date) ==
    IF start_date = EmptyDate THEN DEFAULT_SEMESTER
    ELSE IF ~Parses(start_date) THEN DEFAULT_SEMESTER
    ELSE IF start_date.m >= 8 THEN Semester("Fall", start_date.y)
    ELSE IF start_date.m >= 5 THEN Semester("Summer", start_date.y)
    ELSE Semester("Spring", start_date.y)

determine_semester ==
    /\ Idle
    /\ \E date_string \in StartDates :
          Called("determine_semester_from_date", date_string,
                 determine_semester_from_date(date_string))

canvas_helper_determine_semester ==
    /\ Idle
    /\ \E start_date \in StartDates :
          Called("canvas_helper.determine_semester_from_date", start_date,
                 canvas_helper_determine_semester_from_date(start_date))

\* C16: determine_semester_from_date gives Spring Y for months 1 to 5, Summer Y for months
\* 6 and 7, Fall Y for months 8 to 12, Y the year of the date, and the default Fall 2025
\* for an empty or unparsable input.
C16_TermResolution ==
    call.fn \in {"determine_semester_from_date",
                 "canvas_helper.determine_semester_from_date"}
        => call.value =
               IF call.arg = EmptyDate \/ call.arg = Garbage THEN Semester("Fall", 2025)
               ELSE IF call.arg.m \in 1..5 THEN Semester("Spring", call.arg.y)
               ELSE IF call.arg.m \in 6..7 THEN Semester("Summer", call.arg.y)
               ELSE Semester("Fall", call.arg.y)

(***************************************************************************)
(* Assignment types.  A str is the sequence of its characters.             *)
(***************************************************************************)
UpperToLower ==
    ("A" :> "a") @@ ("E" :> "e") @@ ("F" :> "f") @@ ("H" :> "h") @@ ("M" :> "m")
        @@ ("Q" :> "q") @@ ("S" :> "s") @@ ("T" :> "t") @@ ("X" :> "x")

\* str.lower()
lower(s) ==
    [i \in 1..Len(s) |-> IF s[i] \in DOMAIN UpperToLower THEN UpperToLower[s[i]] ELSE s[i]]

\* "k in s" for two str
Occurs(k, s) ==
    \E i \in 1..(Len(s) - Len(k) + 1) : SubSeq(s, i, i + Len(k) - 1) = k

EXAM_KEYWORDS ==
    {<<"e", "x", "a", "m">>,
     <<"t", "e", "s", "t">>,
     <<"m", "i", "d", "t", "e", "r", "m">>,
     <<"f", "i", "n", "a", "l">>,
     <<"q", "u", "i", "z">>}

exam_keywords == EXAM_KEYWORDS \cup {<<"a", "s", "s", "e", "s", "s", "m", "e", "n", "t">>}

AssignmentNames ==
    {<<>>,
     <<"h", "w">>,
     <<"E", "x", "a", "m">>,
     <<"E", "X", "A", "M">>,
     <<"l", "a", "t", "e", "s", "t">>,
     <<"M", "i", "d", "t", "e", "r", "m">>,
     <<"f", "i", "n", "a", "l">>,
     <<"Q", "u", "i", "z">>,
     <<"S", "e", "l", "f", " ", "A", "s", "s", "e", "s", "s", "m", "e", "n", "t">>,
     <<"M", "A", "T", "H">>,
     <<"e", "s", "s", "a", "y">>,
     <<"T", "e", "s", "t">>}

NoDescription == [t |-> "none", s |-> <<>>]

Descriptions ==
    {NoDescription} \cup {[t |-> "str", s |-> d] : d \in AssignmentNames}

CanvasAssignments ==
    [name : AssignmentNames, description : Descriptions,
     is_quiz_assignment : {"none", "true", "false"}]

\* description or ""
OrEmpty(description) == IF description.t = "none" THEN <<>> ELSE description.s

\* AssignmentDataExtractor.determine_assignment_type
ExtractorType(canvas_assignment) ==
    LET assignment_name == lower(canvas_assignment.name)
        assignment_description == lower(OrEmpty(canvas_assignment.description))
    IN  IF \E keyword \in EXAM_KEYWORDS :
               Occurs(keyword, assignment_name) \/ Occurs(keyword, assignment_description)
        THEN "Exam" ELSE "Assignment"

\* AssignmentFormatter._determine_assignment_type
FormatterType(canvas_assignment) ==
    LET assignment_text ==
            lower(canvas_assignment.name \o <<" ">> \o OrEmpty(canvas_assignment.description))
    IN  IF canvas_assignment.is_quiz_assignment = "true" THEN "Exam"
        ELSE IF \E keyword \in exam_keywords : Occurs(keyword, assignment_text)
        THEN "Exam" ELSE "Assignment"

determine_assignment_type ==
    /\ Idle
    /\ \E canvas_assignment \in CanvasAssignments :
          Called("determine_assignment_type", canvas_assignment,
                 ExtractorType(canvas_assignment))

_determine_assignment_type ==
    /\ Idle
    /\ \E canvas_assignment \in CanvasAssignments :
          Called("_determine_assignment_type", canvas_assignment,
                 FormatterType(canvas_assignment))

\* one of the five keywords is in the name or the description, whatever the case
HasExamKeyword(canvas_assignment) ==
    \E keyword \in EXAM_KEYWORDS :
        \/ Occurs(keyword, lower(canvas_assignment.name))
        \/ Occurs(keyword, lower(OrEmpty(canvas_assignment.description)))

\* C17: an assignment is typed Exam exactly when one of exam, test, midterm, final, quiz
\* occurs, case-insensitively, in its name or description, and Assignment otherwise, on
\* both assignment paths.
C17_ExamClassification ==
    call.fn \in {"determine_assignment_type", "_determine_assignment_type"}
        => call.value = IF HasExamKeyword(call.arg) THEN "Exam" ELSE "Assignment"

(***************************************************************************)
(* Course names.  A name is a str built from at most MaxNameTokens pieces, *)
(* a piece being a letter, a blank, a hyphen or the separator " - ".       *)
(***************************************************************************)
MaxNameTokens == 5

NameTokens == {<<"a">>, <<" ">>, <<"-">>, <<" ", "-", " ">>}

RECURSIVE Flatten(_)
Flatten(tokens) ==
    IF tokens = <<>> THEN <<>> ELSE Head(tokens) \o Flatten(Tail(tokens))

CourseNames ==
    {Flatten(tokens) : tokens \in UNION {[1..n -> NameTokens] : n \in 0..MaxNameTokens}}

Text(s) == [t |-> "str", s |-> s]
NoneText == [t |-> "none", s |-> <<>>]
AbsentText == [t |-> "absent", s |-> <<>>]

\* the course_code field of a Canvas course: absent, null, "" or a code
CourseCodeFields == {AbsentText, NoneText, Text(<<>>), Text(<<"c">>)}

\* "if not x" / "if v" for a str or None
Falsy(x) == x.t # "str" \/ x.s = <<>>

\* dict.get(key, default) for a str field
GetText(x, default) == IF x.t = "absent" THEN default ELSE x

\* the last place where sep starts in s, 0 when it is not in s
rfind(s, sep) ==
    LET starts == {i \in 1..(Len(s) - Len(sep) + 1) : SubSeq(s, i, i + Len(sep) - 1) = sep}
    IN  IF starts = {} THEN 0 ELSE CHOOSE i \in starts : \A j \in starts : j <= i

\* the first place where sep starts in s, 0 when it is not in s
find(s, sep) ==
    LET starts == {i \in 1..(Len(s) - Len(sep) + 1) : SubSeq(s, i, i + Len(sep) - 1) = sep}
    IN  IF starts = {} THEN 0 ELSE CHOOSE i \in starts : \A j \in starts : i <= j

\* s.split(sep, 1) for a sep that is in s
split_once(s, sep) ==
    LET i == find(s, sep)
    IN  <<SubSeq(s, 1, i - 1), SubSeq(s, i + Len(sep), Len(s))>>

\* str.strip()
strip(s) ==
    LET kept == {i \in 1..Len(s) : s[i] # " "}
    IN  IF kept = {} THEN <<>>
        ELSE SubSeq(s, CHOOSE i \in kept : \A j \in kept : i <= j,
                       CHOOSE i \in kept : \A j \in kept : j <= i)

Separator == <<" ", "-", " ">>

\* CourseMapper._parse_course_name
_parse_course_name(full_course_name, course_code_field) ==
    LET has == find(full_course_name, Separator) > 0
        parts == split_once(full_course_name, Separator)
        course_title == IF has THEN strip(parts[1]) ELSE full_course_name
        first_code == IF has THEN Text(strip(parts[2]))
                      ELSE GetText(course_code_field, Text(<<>>))
        course_code == IF Falsy(first_code) THEN GetText(course_code_field, Text(<<>>))
                       ELSE first_code
    IN  [title |-> Text(course_title), course_code |-> course_code]

UntitledCourse == <<"U", "n", "t", "i", "t", "l", "e", "d", " ", "C", "o", "u", "r", "s", "e">>

\* "{k: v for k, v in notion_course.items() if v}"
CleanUp(v) == IF Falsy(v) THEN AbsentText ELSE v

\* CourseMapper.map_canvas_course_to_notion: the title and course_code of its dict
MapCourse(canvas_course) ==
    LET full_course_name == GetText(canvas_course.name, Text(UntitledCourse))
        parsed == _parse_course_name(full_course_name.s, canvas_course.course_code)
    IN  [title |-> CleanUp(parsed.title), course_code |-> CleanUp(parsed.course_code)]

parse_course_name ==
    /\ Idle
    /\ \E name \in CourseNames, course_code \in CourseCodeFields :
          Called("_parse_course_name", [name |-> name, course_code |-> course_code],
                 _parse_course_name(name, course_code))

map_canvas_course ==
    /\ Idle
    /\ \E name \in {Text(n) : n \in CourseNames} \cup {AbsentText},
          course_code \in CourseCodeFields :
          Called("map_canvas_course_to_notion", [name |-> name, course_code |-> course_code],
                 MapCourse([name |-> name, course_code |-> course_code]))

\* the name has the separator at i and not before i
FirstSeparatorAt(name, i) ==
    /\ i \in 1..(Len(name) - 2)
    /\ SubSeq(name, i, i + 2) = Separator
    /\ \A j \in 1..(i - 1) : SubSeq(name, j, j + 2) # Separator

HasSeparator(name) == \E i \in 1..Len(name) : FirstSeparatorAt(name, i)

\* s without the blanks at its two ends
RECURSIVE Trimmed(_)
Trimmed(s) ==
    IF s = <<>> THEN s
    ELSE IF Head(s) = " " THEN Trimmed(Tail(s))
    ELSE IF s[Len(s)] = " " THEN Trimmed(SubSeq(s, 1, Len(s) - 1))
    ELSE s

\* the course_code field if present, else empty
FieldOrEmpty(field) == IF field.t = "absent" THEN Text(<<>>) ELSE field

\* C18 as the specification words it: the name is split at the first " - ", the part
\* before it is the title and everything after it is the course code; without " - " the
\* title is the whole name and the code is the course_code field if present, else empty.
C18_SplitAtFirstSeparator ==
    call.fn = "_parse_course_name" =>
        LET name == call.arg.name
        IN  /\ \A i \in 1..Len(name) : FirstSeparatorAt(name, i) =>
                  /\ call.value.title = Text(SubSeq(name, 1, i - 1))
                  /\ call.value.course_code = Text(SubSeq(name, i + 3, Len(name)))
            /\ ~HasSeparator(name) =>
                  /\ call.value.title = Text(name)
                  /\ call.value.course_code = FieldOrEmpty(call.arg.course_code)

\* C18, amended: the name is split at the first " - "; the title is the part before it
\* and the course code everything after it (later " - " included), each without the
\* blanks at its ends, and a code that is empty then is the course_code field if present,
\* else empty; without " - " the title is the whole name and the code is the course_code
\* field if present, else empty.
C18_SplitAtFirstSeparatorTrimmed ==
    call.fn = "_parse_course_name" =>
        LET name == call.arg.name
        IN  /\ \A i \in 1..Len(name) : FirstSeparatorAt(name, i) =>
                  /\ call.value.title = Text(Trimmed(SubSeq(name, 1, i - 1)))
                  /\ call.value.course_code =
                         IF Trimmed(SubSeq(name, i + 3, Len(name))) # <<>>
                         THEN Text(Trimmed(SubSeq(name, i + 3, Len(name))))
                         ELSE FieldOrEmpty(call.arg.course_code)
            /\ ~HasSeparator(name) =>
                  /\ call.value.title = Text(name)
                  /\ call.value.course_code = FieldOrEmpty(call.arg.course_code)

\* C18 witness: "a - a - a" was split into the title "a" and the code "a - a".
C18_Witness ==
    /\ call.fn = "_parse_course_name"
    /\ call.arg.name = <<"a", " ", "-", " ", "a", " ", "-", " ", "a">>
    /\ call.value.title = Text(<<"a">>)
    /\ call.value.course_code = Text(<<"a", " ", "-", " ", "a">>)

\* C19: map_canvas_course_to_notion always gives a non-empty title and a non-empty course
\* code, a placeholder standing in when the name is missing or empty, begins with " - ",
\* or has no separator and the course has no course_code.
C19_TitleAndCodeNonEmpty ==
    call.fn = "map_canvas_course_to_notion" =>
        /\ call.value.title.t = "str" /\ call.value.title.s # <<>>
        /\ call.value.course_code.t = "str" /\ call.value.course_code.s # <<>>

(***************************************************************************)
(* Notion properties.  A schema has one title-typed property, of any name, *)
(* and some of the other properties; a record has a title (absent, None,   *)
(* "" or a str) and values under some of the other keys.                   *)
(***************************************************************************)
TitlePropertyNames == {"Name", "Title", "Course"}

OtherProperties == {"Course Code", "Weighting"}

\* prop_name.lower().replace(" ", "_")
DataKey == ("Course Code" :> "course_code") @@ ("Weighting" :> "weighting")

NoSchema == [found |-> FALSE, title_prop |-> "", others |-> {}]

Schemas ==
    {[found |-> TRUE, title_prop |-> n, others |-> o] :
        n \in TitlePropertyNames, o \in SUBSET OtherProperties}

Records ==
    [title : {AbsentText, NoneText, Text(<<>>), Text(<<"a">>)},
     keys : SUBSET {DataKey[q] : q \in OtherProperties}]

\* NotionWorkspaceManager._build_properties_from_schema: the properties built, each with
\* its name and, for the title, its content
_build_properties_from_schema(schema, data) ==
    LET title_value == GetText(data.title, Text(<<>>))
    IN  (IF ~Falsy(title_value)
         THEN {[name |-> schema.title_prop, content |-> title_value]}
         ELSE {})
        \cup {[name |-> q, content |-> Text(<<>>)] :
                 q \in {o \in schema.others : DataKey[o] \in data.keys}}

\* add_course_entry / add_assignment_entry: the properties sent to pages.create
PropertiesSent(schema, data, untitled) ==
    IF ~schema.found
    THEN {[name |-> "Name", content |-> GetText(data.title, Text(untitled))]}
    ELSE LET properties == _build_properties_from_schema(schema, data)
         IN  IF properties = {}
             THEN {[name |-> schema.title_prop,
                    content |-> GetText(data.title, Text(untitled))]}
             ELSE properties

UntitledAssignment == <<"U", "n", "t", "i", "t", "l", "e", "d", " ", "A", "s", "s", "i", "g", "n", "m", "e", "n", "t">>

add_course_entry_properties ==
    /\ Idle
    /\ \E schema \in Schemas \cup {NoSchema}, course_data \in Records :
          Called("add_course_entry", [schema |-> schema, data |-> course_data],
                 PropertiesSent(schema, course_data, UntitledCourse))

add_assignment_entry_properties ==
    /\ Idle
    /\ \E schema \in Schemas \cup {NoSchema}, assignment_data \in Records :
          Called("add_assignment_entry", [schema |-> schema, data |-> assignment_data],
                 PropertiesSent(schema, assignment_data, UntitledAssignment))

\* C20: for every schema with exactly one title-typed property and every record handed
\* to add_course_entry or add_assignment_entry, a record with an empty or absent title
\* included, the properties sent to Notion contain that title property, whatever its
\* name.
C20_TitlePropertyAlwaysSent ==
    (call.fn \in {"add_course_entry", "add_assignment_entry"} /\ call.arg.schema.found)
        => \E property \in call.value : property.name = call.arg.schema.title_prop

(***************************************************************************)
(* Instructors.  A Canvas course has sections, each with its enrollments,  *)
(* and enrollments of its own; an enrollment has a type and, unless Canvas *)
(* left it out, a user.  A type is the words of its string.                *)
(***************************************************************************)
MaxSections == 2
MaxEnrollments == 2

TEACHER_ENROLLMENT == <<"Teacher", "Enrollment">>
TA_ENROLLMENT == <<"Ta", "Enrollment">>
STUDENT_ENROLLMENT == <<"Student", "Enrollment">>
VALID_ENROLLMENT_TYPES == {TEACHER_ENROLLMENT, TA_ENROLLMENT}
TEACHER_ROLE == <<"Teacher">>
TA_ROLE == <<"Ta">>

\* enrollment.get("user", {}) of an enrollment that came without a user
NoUser == [id |-> 0, name |-> ""]
Ann == [id |-> 1, name |-> "Ann"]
Bob == [id |-> 2, name |-> "Bob"]

Enrollment(type, user) == [type |-> type, user |-> user]

SectionEnrollments ==
    {<<>>, <<Enrollment(TEACHER_ENROLLMENT, Ann)>>, <<Enrollment(TA_ENROLLMENT, Ann)>>}

CourseEnrollments ==
    UNION {[1..n -> {Enrollment(TA_ENROLLMENT, Ann), Enrollment(TA_ENROLLMENT, NoUser),
                     Enrollment(TEACHER_ENROLLMENT, Bob), Enrollment(STUDENT_ENROLLMENT, Ann)}] :
               n \in 0..MaxEnrollments}

CanvasCourses ==
    [sections : UNION {[1..n -> SectionEnrollments] : n \in 0..MaxSections},
     enrollments : CourseEnrollments]

\* the requests of one resolution that do not succeed, at most one: a request Canvas
\* rejects, or a sections response whose items are not objects
RequestFaults ==
    {{}} \cup {{f} : f \in {"sections", "section_enrollments", "details", "enrollments",
                            "malformed_sections"}}

\* str.replace(old, ""): every occurrence of old is taken out
replace(s, old) == SelectSeq(s, LAMBDA w : w # old)

\* what a tier gives: its list, or the ProfessorDetectionError it raised, and the
\* requests it sent
Tier(raised, value, requests) == [raised |-> raised, value |-> value, requests |-> requests]

\* ProfessorDetector._create_professor_from_enrollment
_create_professor_from_enrollment(enrollment) ==
    [id |-> enrollment.user.id, display_name |-> enrollment.user.name, role |-> TEACHER_ROLE]

\* ProfessorDetector._get_professors_from_section; CanvasAPIClient.get_section_enrollments
\* gives [] when its request fails
_get_professors_from_section(section, F) ==
    LET enrollments == IF "section_enrollments" \in F THEN <<>> ELSE section
        kept == SelectSeq(enrollments,
                          LAMBDA e : e.type = TEACHER_ENROLLMENT /\ e.user # NoUser)
    IN  [i \in 1..Len(kept) |-> _create_professor_from_enrollment(kept[i])]

RECURSIVE _extract_professors_from_sections(_, _, _, _)
\* ProfessorDetector._extract_professors_from_sections from section i on: a professor
\* whose id was seen in an earlier section is not added again
_extract_professors_from_sections(sections, i, professors, F) ==
    IF i > Len(sections) THEN professors
    ELSE LET seen == {professors[k].id : k \in 1..Len(professors)}
             new == SelectSeq(_get_professors_from_section(sections[i], F),
                              LAMBDA p : p.id # 0 /\ p.id \notin seen)
         IN  _extract_professors_from_sections(sections, i + 1, professors \o new, F)

\* ProfessorDetector.get_professors_from_sections; CanvasAPIClient.get_course_sections
\* gives [] when its request fails
get_professors_from_sections(course, F) ==
    LET sections == IF "sections" \in F THEN <<>> ELSE course.sections
    IN  IF "malformed_sections" \in F THEN Tier(TRUE, <<>>, <<"sections">>)
        ELSE IF sections = <<>> THEN Tier(FALSE, <<>>, <<"sections">>)
        ELSE Tier(FALSE, _extract_professors_from_sections(sections, 1, <<>>, F),
                  <<"sections">> \o [i \in 1..Len(sections) |-> "section_enrollments"])

\* an instructor whose role is Teacher whatever the enrollment's type
TeacherInstructor(enrollment) ==
    [id |-> enrollment.user.id, display_name |-> enrollment.user.name, role |-> TEACHER_ROLE]

\* ProfessorDetector._create_instructor_from_enrollment
_create_instructor_from_enrollment(enrollment) ==
    [id |-> enrollment.user.id, display_name |-> enrollment.user.name,
     role |-> replace(enrollment.type, "Enrollment")]

\* ProfessorDetector._get_instructors_from_enrollments
_get_instructors_from_enrollments(course) ==
    LET kept == SelectSeq(course.enrollments,
                          LAMBDA e : e.type \in VALID_ENROLLMENT_TYPES /\ e.user # NoUser)
    IN  [i \in 1..Len(kept) |-> _create_instructor_from_enrollment(kept[i])]

\* ProfessorDetector.get_professors_fallback; CanvasAPIClient.get_course_details gives None
\* when its request fails, the enrollments request raises CanvasAPIError
get_professors_fallback(course, F) ==
    IF "details" \in F THEN Tier(FALSE, <<>>, <<"details">>)
    ELSE IF "enrollments" \in F THEN Tier(TRUE, <<>>, <<"details", "enrollments">>)
    ELSE Tier(FALSE, _get_instructors_from_enrollments(course), <<"details", "enrollments">>)

\* the course enhance_course_with_professors returns: the keys it may have set, the
\* requests sent and how each tier ended
EnhancedCourse(professors, all_instructors, requests, sections_tier, fallback_tier) ==
    [professors |-> professors, all_instructors |-> all_instructors, requests |-> requests,
     sections_tier |-> sections_tier, fallback_tier |-> fallback_tier, raised |-> FALSE]

TierEnd(tier) == IF tier.raised THEN "raised" ELSE IF tier.value = <<>> THEN "empty" ELSE "found"

\* a resolution that asks both tiers whatever the sections tier found
BothTiers(course, F) ==
    LET s == get_professors_from_sections(course, F)
        f == get_professors_fallback(course, F)
    IN  EnhancedCourse(s.value, f.value, s.requests \o f.requests, TierEnd(s), TierEnd(f))

\* CanvasSyncService.enhance_course_with_professors
enhance_course_with_professors(course, F) ==
    LET s == get_professors_from_sections(course, F)
        f == get_professors_fallback(course, F)
    IN  IF s.raised \/ s.value # <<>>
        THEN EnhancedCourse(s.value, <<>>, s.requests, TierEnd(s), "not_attempted")
        ELSE EnhancedCourse(<<>>, f.value, s.requests \o f.requests, TierEnd(s), TierEnd(f))

enhance_course ==
    /\ Idle
    /\ \E course \in CanvasCourses, F \in RequestFaults :
          Called("enhance_course_with_professors", [course |-> course, faults |-> F],
                 enhance_course_with_professors(course, F))

\* the entries of the list tagged with the role
Tagged(list, role) == SelectSeq(list, LAMBDA p : p.role = role)

\* the course-level enrollments of the type that carry a user
WithUser(enrollments, type) == SelectSeq(enrollments, LAMBDA e : e.type = type /\ e.user # NoUser)

\* C21: for a course whose sections tier yields no instructor and whose course-level
\* enrollments contain one assistant (TaEnrollment) with a user, the requests of the
\* fallback answered, instructor resolution returns a non-empty list with exactly one
\* entry tagged 'Ta', that assistant, and no error.
C21_AssistantFallback ==
    (/\ call.fn = "enhance_course_with_professors"
     /\ call.value.sections_tier = "empty"
     /\ Len(WithUser(call.arg.course.enrollments, TA_ENROLLMENT)) = 1
     /\ call.arg.faults \cap {"details", "enrollments"} = {})
        => /\ ~call.value.raised
           /\ call.value.all_instructors # <<>>
           /\ Len(Tagged(call.value.all_instructors, TA_ROLE)) = 1
           /\ Tagged(call.value.all_instructors, TA_ROLE)[1].display_name =
                  WithUser(call.arg.course.enrollments, TA_ENROLLMENT)[1].user.name

\* C21 witness: a course without sections whose only course-level enrollment is one
\* assistant; the resolution returned that one entry.
C21_Witness ==
    /\ call.fn = "enhance_course_with_professors"
    /\ call.arg.course.sections = <<>>
    /\ call.arg.course.enrollments = <<Enrollment(TA_ENROLLMENT, Ann)>>
    /\ call.arg.faults = {}
    /\ Len(call.value.all_instructors) = 1
    /\ call.value.all_instructors[1].role = TA_ROLE

\* the resolution sent the request
Requested(request) == \E k \in 1..Len(call.value.requests) : call.value.requests[k] = request

\* C26: the fallback tier is attempted exactly when the sections tier returned an empty
\* list, and after it: when the sections tier found an instructor no course-level request
\* is made, when it found none the fallback is attempted, and when both tiers are empty
\* or fail the course comes back without instructors and nothing is raised.
C26_TierOrdering ==
    call.fn = "enhance_course_with_professors" =>
        /\ Requested("details") <=> call.value.sections_tier = "empty"
        /\ (call.value.fallback_tier # "not_attempted") <=> Requested("details")
        /\ call.value.sections_tier = "found" =>
               /\ ~Requested("enrollments")
               /\ call.value.professors # <<>>
        /\ \A k \in 1..Len(call.value.requests) :
               call.value.requests[k] \in {"details", "enrollments"} =>
                   \A b \in 1..Len(call.value.requests) :
                       call.value.requests[b] \in {"sections", "section_enrollments"}
                           => b < k
        /\ ~call.value.raised
        /\ (/\ call.value.sections_tier \in {"empty", "raised"}
            /\ call.value.fallback_tier \in {"empty", "raised", "not_attempted"})
               => call.value.professors = <<>> /\ call.value.all_instructors = <<>>

\* C26 witness: a course with a section without a teacher and a course-level teacher:
\* the sections tier asked the section and came back empty, then the fallback found the
\* teacher.
C26_Witness ==
    /\ call.fn = "enhance_course_with_professors"
    /\ call.arg.course.sections # <<>>
    /\ call.arg.faults = {}
    /\ call.value.sections_tier = "empty"
    /\ call.value.requests = <<"sections", "section_enrollments", "details", "enrollments">>
    /\ call.value.fallback_tier = "found"
    /\ call.value.all_instructors[1].role = TEACHER_ROLE

\* the "teachers" array Canvas puts into the course when asked to include it
Teachers == {<<>>, <<[display_name |-> "Carol"]>>}

\* a string as its pieces; "" has none
Str(s) == IF s = "" THEN <<>> ELSE <<s>>

\* CourseMapper._extract_professor_name of a course as enhance_course_with_professors
\* returned it; map_canvas_course_to_notion is called without the professors argument
_extract_professor_name(canvas_course) ==
    LET main_teachers == Tagged(canvas_course.all_instructors, TEACHER_ROLE)
        tas == Tagged(canvas_course.all_instructors, TA_ROLE)
    IN  IF canvas_course.professors # <<>>
        THEN Str(canvas_course.professors[1].display_name)
        ELSE IF canvas_course.teachers # <<>>
        THEN Str(canvas_course.teachers[1].display_name)
        ELSE IF main_teachers # <<>> THEN Str(main_teachers[1].display_name)
        ELSE IF tas # <<>> THEN Str(tas[1].display_name) \o <<" (TA)">>
        ELSE <<>>

extract_professor_name ==
    /\ Idle
    /\ \E course \in CanvasCourses, F \in RequestFaults, teachers \in Teachers :
          LET enhanced == enhance_course_with_professors(course, F)
          IN  Called("_extract_professor_name",
                     [professors |-> enhanced.professors,
                      all_instructors |-> enhanced.all_instructors, teachers |-> teachers],
                     _extract_professor_name(
                         [professors |-> enhanced.professors,
                          all_instructors |-> enhanced.all_instructors,
                          teachers |-> teachers]))

\* C27: the professor written for a course is the display name of the first instructor
\* in tier order, the sections tier's list first and otherwise the fallback list in the
\* order returned, with nothing added or removed, and the empty string when the
\* resolution found no instructor.
C27_ProfessorIsFirstInstructor ==
    call.fn = "_extract_professor_name" =>
        LET instructors == call.arg.professors \o call.arg.all_instructors
        IN  call.value = IF instructors = <<>> THEN <<>>
                         ELSE Str(instructors[1].display_name)

\* datetime.now() when the module was loaded: a year and a month
Todays == [y : FirstYear..LastYear, m : 1..12]

\* CURRENT_SEMESTER_MONTHS: the season a month belongs to
CURRENT_SEMESTER_MONTHS ==
    [m \in 1..12 |-> IF m \in {1, 2, 3, 4, 5} THEN "Spring"
                     ELSE IF m \in {6, 7} THEN "Summer" ELSE "Fall"]

\* str(year) in term: the year is the only run of digits in "<season> <year>"
YearInTerm(year, term) == term.year = year

\* CanvasSyncService._is_current_semester_course, CURRENT_YEAR being now's year
_is_current_semester_course(start_date, now) ==
    IF start_date = EmptyDate THEN TRUE
    ELSE YearInTerm(now.y, determine_semester_from_date(start_date))

is_current_semester_course ==
    /\ Idle
    /\ \E start_date \in StartDates, now \in Todays :
          Called("_is_current_semester_course", [start_at |-> start_date, now |-> now],
                 _is_current_semester_course(start_date, now))

\* C28: get_current_semester_courses keeps an enrolled course exactly when its start date
\* parses and the season and the year it gives are the current season and the current
\* year: a course of another season of the current year is dropped, and so is a course
\* whose start date is missing or cannot be parsed.
C28_CurrentTermFilter ==
    call.fn = "_is_current_semester_course" =>
        (call.value <=>
            /\ call.arg.start_at # EmptyDate
            /\ Parses(call.arg.start_at)
            /\ call.arg.start_at.y = call.arg.now.y
            /\ CURRENT_SEMESTER_MONTHS[call.arg.start_at.m] =
                   CURRENT_SEMESTER_MONTHS[call.arg.now.m])

\* Canvas assignment ids on both sides of the decoder's threshold
CanvasAssignmentIds ==
    {IntV(n) : n \in {1} \cup ((WeightThreshold - 2)..(WeightThreshold + 2))}

\* the id a sync writes into the weighting of a page, read back from that page by
\* get_existing_assignments
weighting_round_trip ==
    /\ Idle
    /\ \E id \in CanvasAssignmentIds :
          Called("weighting", id, WeightingCanvasId(AssignmentPage([id |-> id])))

\* C29: for every Canvas assignment id, the id get_existing_assignments decodes from the
\* weighting of the page the sync wrote for it is the id that was encoded.
C29_WeightingRoundTrip ==
    call.fn = "weighting" => (call.value # NoneV /\ py_int(call.value) = call.arg)

NextMap ==
    \/ _format_due_date
    \/ map_canvas_assignment_to_notion
    \/ course_mapper_map_canvas_assignment_to_notion
    \/ determine_semester
    \/ canvas_helper_determine_semester
    \/ determine_assignment_type
    \/ _determine_assignment_type
    \/ parse_course_name
    \/ map_canvas_course
    \/ add_course_entry_properties
    \/ add_assignment_entry_properties
    \/ enhance_course
    \/ extract_professor_name
    \/ is_current_semester_course
    \/ weighting_round_trip

SpecMap == InitMap /\ [][NextMap]_vars

====
